---- MODULE Spec2Model ----
(***************************************************************************)
(* A model of the business state transition engine of zato-labs            *)
(* (src/bst/src/zato/bst/core.py): the definition graph, the parser of a   *)
(* definition block, the Redis state backend, the StateMachine and the     *)
(* transition_to context manager.                                          *)
(*                                                                         *)
(* Modelling conventions                                                   *)
(*  - Python's None is the string "None" where a state name is expected    *)
(*    and the record NoData where a stored value or a record is expected.  *)
(*  - State names are non-empty strings (every key and value of the        *)
(*    definition blocks of the tests is), so a state name is truthy.       *)
(*  - '{}.v{}'.format(name, version) and '{}.{}'.format(type, id) are the  *)
(*    tuples <<name, version>> and <<type, id>>.                           *)
(*  - dumps(x) is the record [json |-> x], loads its inverse on such       *)
(*    records: a stored value is never confused with the value it encodes. *)
(*  - transition_ts_utc (the wall clock) is left out of the stored record. *)
(***************************************************************************)
EXTENDS Integers, Sequences, FiniteSets, TLC

VARIABLES
    config,              \* StateMachine.config: def_tag -> ConfigItem
    object_type_to_def,  \* StateMachine.object_type_to_def: object type -> list of def_tag
    conn,                \* the Redis connection of RedisBackend: <<hash name, field>> -> value
    scope,               \* the transition_to object between __enter__ and __exit__
    last,                \* the last call made, its arguments and its outcome
    pre,                 \* conn as it was when the last call started
    done,                \* per (object_tag, def_tag): the transition calls that succeeded, in order
    threads,             \* the callers that run transition or read the store step by step
    graph,               \* a Definition built call by call, as it is and as it was before the last call
    retry                \* an invoke_retry call or a background _InvokeRetry under way: where it is, what it has done

vars == <<config, object_type_to_def, conn, scope, last, pre, done, threads, graph, retry>>

-----------------------------------------------------------------------------
(* Bounds of the model *)

\* The most records written to the store by single and mass transitions.
MaxHist == 2

\* The most transitions the object of Spec is driven through.
MaxMoves == 1

\* The longest list handed to mass_transition.
MaxItems == 3

\* The most records written while transition_to is exercised.
MaxScopeWrites == 1

\* The most transition calls started by the concurrent callers.
MaxRaceCalls == 2

\* The most add_node and add_edge calls made on a Definition built call by call.
MaxDefCalls == 5

\* The most lines of a block handed to the parser.
MaxBlockLines == 3

-----------------------------------------------------------------------------
(* Values *)

None == "None"

NoData == [nil |-> TRUE]

StateNames == {"new", "submitted", "ready"}

\* The names a caller may ask for: the states a block may declare and one
\* name no block of the family ever declares as a from-state or a to-state.
Names == StateNames \cup {"canceled"}

RECURSIVE SetToSeq(_)
SetToSeq(S) ==
    IF S = {} THEN <<>>
    ELSE LET x == CHOOSE y \in S : TRUE IN <<x>> \o SetToSeq(S \ {x})

Range(s) == {s[i] : i \in 1..Len(s)}

\* rapidjson.dumps / loads
dumps(x) == [json |-> x]

loads(s) == s.json

-----------------------------------------------------------------------------
(* CONST, AddEdgeResult, validate_from_to, Node, Definition *)

NO_SUCH_NODE == "NO_SUCH_NODE"

\* The text of CONST.DEFAULT_GRAPH_VERSION (the integer 1) once formatted into a tag.
DEFAULT_GRAPH_VERSION == "1"

AddEdgeResult(is_ok, error_code, details) ==
    [is_ok |-> is_ok, error_code |-> error_code, details |-> details]

\* AddEdgeResult.__nonzero__, and the truth of the plain True/False that
\* add_edge and has_edge return when validation passes.
Truthy(result) == result.is_ok

\* A plain Python bool returned by the wrapped function.
Plain(b) == AddEdgeResult(b, None, None)

\* Definition.get_tag
get_tag(name, version) == <<name, version>>

\* Definition.format_name on the names the model uses: spaces become dots.
format_name(name) ==
    CASE name = "Orders" -> "Orders"
      [] name = "Orders Old" -> "Orders.Old"
      [] OTHER -> name

\* Definition.__init__: no nodes, no non-roots, no cached roots.
\* roots_cached is FALSE while self._roots is None.
Definition(name, version) ==
    [name |-> name, version |-> version, tag |-> get_tag(name, version),
     nodes |-> [n \in {} |-> {}], non_root |-> {},
     roots_cached |-> FALSE, roots_cache |-> {}]

\* A validation that looks at to before from_.
validate_to_first(def_, from_, to) ==
    IF to \notin DOMAIN def_.nodes THEN AddEdgeResult(FALSE, NO_SUCH_NODE, to)
    ELSE IF from_ \notin DOMAIN def_.nodes THEN AddEdgeResult(FALSE, NO_SUCH_NODE, from_)
    ELSE AddEdgeResult(TRUE, None, None)

\* The validation of the decorator: the first of (from_, to) that is no node.
validate_from_to(def_, from_, to) ==
    IF from_ \notin DOMAIN def_.nodes THEN AddEdgeResult(FALSE, NO_SUCH_NODE, from_)
    ELSE IF to \notin DOMAIN def_.nodes THEN AddEdgeResult(FALSE, NO_SUCH_NODE, to)
    ELSE AddEdgeResult(TRUE, None, None)

\* An add_node that leaves a node that is already there as it is.
add_node_keep(def_, name) ==
    IF name \in DOMAIN def_.nodes THEN def_
    ELSE [def_ EXCEPT !.nodes = [n \in (DOMAIN def_.nodes) \cup {name} |->
                                     IF n = name THEN {} ELSE def_.nodes[n]]]

\* Definition.add_node: self.nodes[name] = Node(name, data), a node with no edges.
add_node(def_, name) ==
    [def_ EXCEPT !.nodes = [n \in (DOMAIN def_.nodes) \cup {name} |->
                                IF n = name THEN {} ELSE def_.nodes[n]]]

\* Definition.add_edge: the definition after the call.
add_edge(def_, from_, to) ==
    IF ~validate_from_to(def_, from_, to).is_ok THEN def_
    ELSE [def_ EXCEPT !.nodes[from_] = @ \cup {to}, !.non_root = @ \cup {to}]

\* Definition.add_edge: what the call returns.
add_edge_result(def_, from_, to) ==
    IF ~validate_from_to(def_, from_, to).is_ok THEN validate_from_to(def_, from_, to)
    ELSE Plain(TRUE)

\* A has_edge that also follows a path of two edges.
has_edge_by_path(def_, from_, to) ==
    IF ~validate_from_to(def_, from_, to).is_ok THEN validate_from_to(def_, from_, to)
    ELSE Plain(\/ to \in def_.nodes[from_]
               \/ \E mid \in def_.nodes[from_] :
                     mid \in DOMAIN def_.nodes /\ to \in def_.nodes[mid])

\* A has_edge that takes an edge in either direction.
has_edge_undirected(def_, from_, to) ==
    IF ~validate_from_to(def_, from_, to).is_ok THEN validate_from_to(def_, from_, to)
    ELSE Plain(to \in def_.nodes[from_] \/ from_ \in def_.nodes[to])

\* Definition.has_edge: what the call returns.
has_edge(def_, from_, to) ==
    IF ~validate_from_to(def_, from_, to).is_ok THEN validate_from_to(def_, from_, to)
    ELSE Plain(to \in def_.nodes[from_])

\* Roots that forget which nodes an edge leads to.
roots_all_nodes(def_) == DOMAIN def_.nodes

\* Definition.roots: the value read. `not self._roots` holds for None and
\* for an empty list alike, and then the roots are computed afresh.
\* The sorted list is kept as the set of its elements.
roots(def_) ==
    IF ~def_.roots_cached \/ def_.roots_cache = {}
    THEN (DOMAIN def_.nodes) \ def_.non_root
    ELSE def_.roots_cache

\* A read of roots that keeps every node in self._roots.
roots_read_all_nodes(def_) ==
    [def_ EXCEPT !.roots_cached = TRUE, !.roots_cache = DOMAIN def_.nodes]

\* Definition.roots: the definition after the read (the cache is filled).
roots_read(def_) ==
    [def_ EXCEPT !.roots_cached = TRUE, !.roots_cache = roots(def_)]

-----------------------------------------------------------------------------
(* ConfigItem: the parser of a definition block *)

\* A value of a parsed block: ConfigObj gives a string for `a=b` and a list
\* for `a=b, c`.
Scalar(s) == [is_list |-> FALSE, v |-> s]

List(s) == [is_list |-> TRUE, v |-> s]

\* `if not isinstance(x, list): x = [x]`
to_list(x) == IF x.is_list THEN x.v ELSE <<x.v>>

\* A block is the list of its [key, value] lines, in declaration order.
has_key(items, k) == \E i \in 1..Len(items) : items[i].key = k

get_key(items, k) == items[CHOOSE i \in 1..Len(items) : items[i].key = k].value

\* A pop that leaves the key in the block.
del_key_none(items, k) == items

del_key(items, k) == SelectSeq(items, LAMBDA it : it.key # k)

\* ConfigItem.__init__ (def_config and orig_config, the retained source
\* text of the block, are not kept).
ConfigItem ==
    [def_ |-> Definition("auto", DEFAULT_GRAPH_VERSION), objects |-> <<>>, force_stop |-> <<>>]

RECURSIVE add_each_node(_, _)
add_each_node(def_, to) ==
    IF to = <<>> THEN def_ ELSE add_each_node(add_node(def_, Head(to)), Tail(to))

RECURSIVE add_each_edge(_, _, _)
add_each_edge(def_, from_, to) ==
    IF to = <<>> THEN def_ ELSE add_each_edge(add_edge(def_, from_, Head(to)), from_, Tail(to))

\* A parser of one pass: the edges of a line are added right after its
\* from-state, to what is a node by then.
RECURSIVE add_nodes_edges_one_pass(_, _, _)
add_nodes_edges_one_pass(def_, items, add_nodes) ==
    IF items = <<>> \/ ~add_nodes THEN def_
    ELSE LET from_ == Head(items).key
             to == to_list(Head(items).value)
         IN add_nodes_edges_one_pass(add_each_edge(add_node(def_, from_), from_, to),
                                     Tail(items), add_nodes)

\* ConfigItem._add_nodes_edges over the lines of the block.
RECURSIVE add_nodes_edges(_, _, _)
add_nodes_edges(def_, items, add_nodes) ==
    IF items = <<>> THEN def_
    ELSE LET from_ == Head(items).key
             to == to_list(Head(items).value)
             next == IF add_nodes
                     THEN add_each_node(add_node(def_, from_), to)
                     ELSE add_each_edge(def_, from_, to)
         IN add_nodes_edges(next, Tail(items), add_nodes)

\* ConfigItem._extend_list: the list popped off the block for attr.
extend_list(items, attr) ==
    IF has_key(items, attr) THEN to_list(get_key(items, attr)) ELSE <<>>

\* ConfigItem.parse_config_dict on {name: items}.
parse_config_dict(name, items) ==
    LET def_name == format_name(name)
        version == IF has_key(items, "version") THEN get_key(items, "version").v
                   ELSE DEFAULT_GRAPH_VERSION
        rest == del_key(del_key(del_key(items, "version"), "objects"), "force_stop")
        d0 == [ConfigItem.def_ EXCEPT !.name = def_name, !.version = version]
        d1 == add_nodes_edges(d0, rest, TRUE)
        d2 == add_nodes_edges(d1, rest, FALSE)
    IN [def_ |-> [d2 EXCEPT !.tag = get_tag(def_name, version)],
        objects |-> ConfigItem.objects \o extend_list(items, "objects"),
        force_stop |-> ConfigItem.force_stop \o extend_list(items, "force_stop")]

-----------------------------------------------------------------------------
(* RedisBackend *)

PATTERN_STATE_CURRENT(def_tag) == <<"zato:bst:state:current", def_tag>>

PATTERN_STATE_HISTORY(def_tag) == <<"zato:bst:state:history", def_tag>>

\* redis hget: None when the hash has no such field.
hget(c, name, key) == IF <<name, key>> \in DOMAIN c THEN c[<<name, key>>] ELSE NoData

\* redis hset
hset(c, name, key, value) ==
    [x \in (DOMAIN c) \cup {<<name, key>>} |-> IF x = <<name, key>> THEN value ELSE c[x]]

\* A get_current_state_info of the backend that never finds a record.
backend_get_current_state_info_none(c, object_tag, def_tag) == NoData

\* RedisBackend.get_current_state_info
backend_get_current_state_info(c, object_tag, def_tag) ==
    LET data == hget(c, PATTERN_STATE_CURRENT(def_tag), object_tag)
    IN IF data # NoData THEN loads(data) ELSE NoData

\* RedisBackend.get_history
backend_get_history(c, object_tag, def_tag) ==
    LET history == hget(c, PATTERN_STATE_HISTORY(def_tag), object_tag)
    IN IF history # NoData THEN loads(history) ELSE <<>>

\* A set_current_state_info that puts the new record in front of the history.
set_current_state_info_step_in_front(c, pc, history, object_tag, def_tag, state_info) ==
    IF pc = "hset_current"
    THEN [conn |-> hset(c, PATTERN_STATE_CURRENT(def_tag), object_tag, state_info),
          history |-> history, pc |-> "get_history"]
    ELSE IF pc = "get_history"
    THEN [conn |-> c, history |-> backend_get_history(c, object_tag, def_tag),
          pc |-> "hset_history"]
    ELSE [conn |-> hset(c, PATTERN_STATE_HISTORY(def_tag), object_tag,
                        dumps(<<state_info>> \o history)),
          history |-> history, pc |-> "return"]

\* A set_current_state_info that reads, extends and writes the history
\* before it writes the current-state record.
set_current_state_info_step_history_first(c, pc, history, object_tag, def_tag, state_info) ==
    IF pc = "hset_current"
    THEN [conn |-> c, history |-> backend_get_history(c, object_tag, def_tag), pc |-> "get_history"]
    ELSE IF pc = "get_history"
    THEN [conn |-> hset(c, PATTERN_STATE_HISTORY(def_tag), object_tag,
                        dumps(Append(history, state_info))),
          history |-> history, pc |-> "hset_history"]
    ELSE [conn |-> hset(c, PATTERN_STATE_CURRENT(def_tag), object_tag, state_info),
          history |-> history, pc |-> "return"]

\* A set_current_state_info that writes a history of the new record alone.
set_current_state_info_step_no_append(c, pc, history, object_tag, def_tag, state_info) ==
    IF pc = "hset_current"
    THEN [conn |-> hset(c, PATTERN_STATE_CURRENT(def_tag), object_tag, state_info),
          history |-> history, pc |-> "get_history"]
    ELSE IF pc = "get_history"
    THEN [conn |-> c, history |-> backend_get_history(c, object_tag, def_tag),
          pc |-> "hset_history"]
    ELSE [conn |-> hset(c, PATTERN_STATE_HISTORY(def_tag), object_tag, dumps(<<state_info>>)),
          history |-> history, pc |-> "return"]

\* A set_current_state_info that keeps every history in the hash of one definition.
set_current_state_info_step_one_hash(c, pc, history, object_tag, def_tag, state_info) ==
    IF pc = "hset_current"
    THEN [conn |-> hset(c, PATTERN_STATE_CURRENT(def_tag), object_tag, state_info),
          history |-> history, pc |-> "get_history"]
    ELSE IF pc = "get_history"
    THEN [conn |-> c, history |-> backend_get_history(c, object_tag, <<"Orders", "1">>),
          pc |-> "hset_history"]
    ELSE [conn |-> hset(c, PATTERN_STATE_HISTORY(<<"Orders", "1">>), object_tag,
                        dumps(Append(history, state_info))),
          history |-> history, pc |-> "return"]

\* RedisBackend.set_current_state_info, one command sent to Redis at a
\* time: [conn, history, pc] after the command at pc, history being the
\* local list of the caller. The commands are the hset of the current-state
\* record, the hget of get_history and the hset of the extended history.
set_current_state_info_step(c, pc, history, object_tag, def_tag, state_info) ==
    IF pc = "hset_current"
    THEN [conn |-> hset(c, PATTERN_STATE_CURRENT(def_tag), object_tag, state_info),
          history |-> history, pc |-> "get_history"]
    ELSE IF pc = "get_history"
    THEN [conn |-> c, history |-> backend_get_history(c, object_tag, def_tag),
          pc |-> "hset_history"]
    ELSE [conn |-> hset(c, PATTERN_STATE_HISTORY(def_tag), object_tag,
                        dumps(Append(history, state_info))),
          history |-> history, pc |-> "return"]

-----------------------------------------------------------------------------
(* StateMachine *)

\* StateMachine.get_object_tag
get_object_tag(object_type, object_id) == <<object_type, object_id>>

\* defs.append(def_tag) on object_type_to_def.setdefault(object_type, [])
setdefault_append(m, object_type, def_tag) ==
    [t \in (DOMAIN m) \cup {object_type} |->
        IF t = object_type
        THEN (IF t \in DOMAIN m THEN m[t] ELSE <<>>) \o <<def_tag>>
        ELSE m[t]]

RECURSIVE set_up_objects(_, _, _)
set_up_objects(m, def_tag, objects) ==
    IF objects = <<>> THEN m
    ELSE set_up_objects(setdefault_append(m, Head(objects), def_tag), def_tag, Tail(objects))

RECURSIVE set_up_items(_, _, _)
set_up_items(m, cfg, def_tags) ==
    IF def_tags = <<>> THEN m
    ELSE set_up_items(set_up_objects(m, Head(def_tags), cfg[Head(def_tags)].objects),
                      cfg, Tail(def_tags))

\* The orders self.config.items() may go through the tags in: config is a
\* plain dict, its order is that of the hashes of the tags and differs from
\* one interpreter run to another.
config_items(cfg) ==
    {def_tags \in [1..Cardinality(DOMAIN cfg) -> DOMAIN cfg] : Range(def_tags) = DOMAIN cfg}

\* StateMachine.set_up, from the empty object_type_to_def of __init__, with
\* config.items() going through the tags in the order def_tags.
set_up(cfg, def_tags) == set_up_items([t \in {} |-> <<>>], cfg, def_tags)

\* A record with the old and the new state swapped.
get_transition_info_swapped(state_current, state_new, object_tag, def_tag, server_ctx, user_ctx, is_forced) ==
    [state_old |-> state_new,
     state_current |-> state_current,
     object_tag |-> object_tag,
     def_tag |-> def_tag,
     server_ctx |-> server_ctx,
     user_ctx |-> user_ctx,
     is_forced |-> is_forced]

\* A record that never tells the state the object came from.
get_transition_info_no_old(state_current, state_new, object_tag, def_tag, server_ctx, user_ctx, is_forced) ==
    [state_old |-> None,
     state_current |-> state_new,
     object_tag |-> object_tag,
     def_tag |-> def_tag,
     server_ctx |-> server_ctx,
     user_ctx |-> user_ctx,
     is_forced |-> is_forced]

\* StateMachine.get_transition_info
get_transition_info(state_current, state_new, object_tag, def_tag, server_ctx, user_ctx, is_forced) ==
    [state_old |-> state_current,
     state_current |-> state_new,
     object_tag |-> object_tag,
     def_tag |-> def_tag,
     server_ctx |-> server_ctx,
     user_ctx |-> user_ctx,
     is_forced |-> is_forced]

\* The empty reason '' of an allowed transition.
NoReason == [kind |-> "", names |-> <<>>]

\* 'Object `{}` of `{}` not found and target state `{}` is not one of roots `{}`'
NotRootReason(object_tag, def_tag, state_new, roots_) ==
    [kind |-> "not found and target state is not one of roots",
     names |-> <<object_tag, def_tag, state_new, roots_>>]

\* 'No transition found from `{}` to `{}` for `{}` in `{}`'
NoEdgeReason(state_current, state_new, object_tag, def_tag) ==
    [kind |-> "No transition found",
     names |-> <<state_current, state_new, object_tag, def_tag>>]

Result(ok, reason, state_old, state_new) ==
    [ok |-> ok, reason |-> reason, state_old |-> state_old, state_new |-> state_new]

\* can_transition with one of its tests changed:
\*   "same_stop"   a force_stop state is refused to an object already in it;
\*   "force_known" force is honoured only for an object that has a current state;
\*   "force_nodes" a forced transition to a state that is no node is refused;
\*   "force_any"   a forced transition is allowed to any state name;
\*   "any_edge"    an object that has a state may go to any node;
\*   "unknown_from" the result of has_edge counts as true when it is an
\*                 AddEdgeResult, whatever its is_ok.
can_transition_changed(cfg, c, object_tag, state_new, def_tag, force, change) ==
    LET config_item == cfg[def_tag]
        state_current_info == backend_get_current_state_info(c, object_tag, config_item.def_.tag)
        state_current == IF state_current_info # NoData
                         THEN state_current_info.state_current ELSE None
    IN IF /\ force
          /\ (state_new \in DOMAIN config_item.def_.nodes \/ change = "force_any")
          /\ (change = "force_known" => state_current_info # NoData)
       THEN Result(TRUE, NoReason, state_current, state_new)
       ELSE IF change = "force_nodes" /\ force
       THEN Result(FALSE, NoEdgeReason(state_current, state_new, object_tag, def_tag),
                   state_current, state_new)
       ELSE IF /\ state_new \in Range(config_item.force_stop)
               /\ (change = "same_stop" => state_new # state_current)
       THEN Result(TRUE, NoReason, state_current, state_new)
       ELSE IF state_current_info = NoData /\ state_new \notin roots(config_item.def_)
       THEN Result(FALSE,
                   NotRootReason(object_tag, config_item.def_.tag, state_new,
                                 roots(config_item.def_)),
                   None, state_new)
       ELSE IF /\ state_current # None
               /\ ~Truthy(has_edge(config_item.def_, state_current, state_new))
               /\ (change = "any_edge" => state_new \notin DOMAIN config_item.def_.nodes)
               /\ (change = "unknown_from"
                      => has_edge(config_item.def_, state_current, state_new).error_code = None)
       THEN Result(FALSE, NoEdgeReason(state_current, state_new, object_tag, def_tag),
                   state_current, state_new)
       ELSE Result(TRUE, NoReason, state_current, state_new)

can_transition_same_stop(cfg, c, object_tag, state_new, def_tag, force) ==
    can_transition_changed(cfg, c, object_tag, state_new, def_tag, force, "same_stop")

can_transition_force_known(cfg, c, object_tag, state_new, def_tag, force) ==
    can_transition_changed(cfg, c, object_tag, state_new, def_tag, force, "force_known")

can_transition_force_nodes(cfg, c, object_tag, state_new, def_tag, force) ==
    can_transition_changed(cfg, c, object_tag, state_new, def_tag, force, "force_nodes")

can_transition_force_any(cfg, c, object_tag, state_new, def_tag, force) ==
    can_transition_changed(cfg, c, object_tag, state_new, def_tag, force, "force_any")

can_transition_any_edge(cfg, c, object_tag, state_new, def_tag, force) ==
    can_transition_changed(cfg, c, object_tag, state_new, def_tag, force, "any_edge")

can_transition_unknown_from(cfg, c, object_tag, state_new, def_tag, force) ==
    can_transition_changed(cfg, c, object_tag, state_new, def_tag, force, "unknown_from")

\* StateMachine.can_transition: the tuple returned, for def_tag a key of cfg.
can_transition(cfg, c, object_tag, state_new, def_tag, force) ==
    LET config_item == cfg[def_tag]
        state_current_info == backend_get_current_state_info(c, object_tag, config_item.def_.tag)
        state_current == IF state_current_info # NoData
                         THEN state_current_info.state_current ELSE None
    IN IF force /\ state_new \in DOMAIN config_item.def_.nodes
       THEN Result(TRUE, NoReason, state_current, state_new)
       ELSE IF state_new \in Range(config_item.force_stop)
       THEN Result(TRUE, NoReason, state_current, state_new)
       ELSE IF state_current_info = NoData /\ state_new \notin roots(config_item.def_)
       THEN Result(FALSE,
                   NotRootReason(object_tag, config_item.def_.tag, state_new,
                                 roots(config_item.def_)),
                   None, state_new)
       ELSE IF state_current # None
               /\ ~Truthy(has_edge(config_item.def_, state_current, state_new))
       THEN Result(FALSE, NoEdgeReason(state_current, state_new, object_tag, def_tag),
                   state_current, state_new)
       ELSE Result(TRUE, NoReason, state_current, state_new)

\* StateMachine.can_transition: cfg after the call. The roots are read, and
\* their cache filled, when neither the force nor the force_stop test
\* allowed the transition and the object has no current state.
can_transition_config(cfg, c, object_tag, state_new, def_tag, force) ==
    LET config_item == cfg[def_tag]
        state_current_info == backend_get_current_state_info(c, object_tag, config_item.def_.tag)
    IN IF ~(force /\ state_new \in DOMAIN config_item.def_.nodes)
          /\ state_new \notin Range(config_item.force_stop)
          /\ state_current_info = NoData
       THEN [cfg EXCEPT ![def_tag].def_ = roots_read(@)]
       ELSE cfg

\* The arguments of one call of transition, as mass_transition unpacks them.
TransitionArgs(object_tag, state_new, def_tag, server_ctx, user_ctx, force, raise_on_error) ==
    [object_tag |-> object_tag, state_new |-> state_new, def_tag |-> def_tag,
     server_ctx |-> server_ctx, user_ctx |-> user_ctx, force |-> force,
     raise_on_error |-> raise_on_error]

\* A call of transition that has sent no command yet: where it is, its
\* arguments, the record it is to write, the history it has read, the tuple
\* it is to return and the reason it raises with.
transition_start(item) ==
    [pc |-> "can_transition", item |-> item, state_info |-> NoData, history |-> <<>>,
     ret |-> NoData, error |-> NoData]

\* transition with one step changed:
\*   "write_first"  the record is written before the outcome of the validation is looked at;
\*   "raise_always" raise_on_error=false is not honoured.
transition_step_changed(cfg, c, t, change) ==
    LET item == t.item
    IN IF t.pc = "can_transition"
       THEN LET can == can_transition(cfg, c, item.object_tag, item.state_new, item.def_tag,
                                      item.force)
                ret == Result(can.ok, can.reason, can.state_old, item.state_new)
                state_info == dumps(get_transition_info(can.state_old, item.state_new,
                                                        item.object_tag, item.def_tag,
                                                        item.server_ctx, item.user_ctx,
                                                        item.force))
            IN IF ~can.ok /\ change # "write_first"
               THEN IF item.raise_on_error \/ change = "raise_always"
                    THEN [conn |-> c, t |-> [t EXCEPT !.pc = "raised", !.error = can.reason]]
                    ELSE [conn |-> c, t |-> [t EXCEPT !.pc = "returned", !.ret = ret]]
               ELSE [conn |-> c,
                     t |-> [t EXCEPT !.pc = "hset_current", !.state_info = state_info,
                                     !.ret = ret]]
       ELSE LET r == set_current_state_info_step(c, t.pc, t.history, item.object_tag,
                                                 item.def_tag, t.state_info)
                pc == IF r.pc # "return" THEN r.pc
                      ELSE IF t.ret.ok \/ ~item.raise_on_error THEN "returned"
                      ELSE "raised"
            IN [conn |-> r.conn,
                t |-> [t EXCEPT !.pc = pc, !.history = r.history,
                                !.error = IF pc = "raised" THEN t.ret.reason ELSE NoData]]

transition_step_write_first(cfg, c, t) == transition_step_changed(cfg, c, t, "write_first")

transition_step_raise_always(cfg, c, t) == transition_step_changed(cfg, c, t, "raise_always")

\* StateMachine.transition, one command sent to Redis at a time: [conn, t]
\* after the command at t.pc. The commands are the hget of can_transition
\* and the three of set_current_state_info; a refusal ends the call at the
\* first of them, raised or returned, and nothing is written.
transition_step(cfg, c, t) ==
    LET item == t.item
    IN IF t.pc = "can_transition"
       THEN LET can == can_transition(cfg, c, item.object_tag, item.state_new, item.def_tag,
                                      item.force)
                ret == Result(can.ok, can.reason, can.state_old, item.state_new)
            IN IF ~can.ok
               THEN IF item.raise_on_error
                    THEN [conn |-> c, t |-> [t EXCEPT !.pc = "raised", !.error = can.reason]]
                    ELSE [conn |-> c, t |-> [t EXCEPT !.pc = "returned", !.ret = ret]]
               ELSE [conn |-> c,
                     t |-> [t EXCEPT !.pc = "hset_current", !.ret = ret,
                                     !.state_info =
                                         dumps(get_transition_info(can.state_old, item.state_new,
                                                                   item.object_tag, item.def_tag,
                                                                   item.server_ctx, item.user_ctx,
                                                                   item.force))]]
       ELSE LET r == set_current_state_info_step(c, t.pc, t.history, item.object_tag,
                                                 item.def_tag, t.state_info)
            IN [conn |-> r.conn,
                t |-> [t EXCEPT !.pc = IF r.pc = "return" THEN "returned" ELSE r.pc,
                                !.history = r.history]]

\* cfg after the command at t.pc: can_transition may read def_.roots.
transition_step_config(cfg, c, t) ==
    IF t.pc = "can_transition"
    THEN can_transition_config(cfg, c, t.item.object_tag, t.item.state_new, t.item.def_tag,
                               t.item.force)
    ELSE cfg

\* A call that makes its transitions one after the other: the items of a
\* mass_transition, the one transition of sm.transition or of
\* transition_to.__exit__. i is the item it is at, t the transition of that
\* item; self and exc are those of the __exit__.
call_start(kind, items, self, exc) ==
    [pc |-> "run", kind |-> kind, items |-> items, i |-> 1, t |-> transition_start(items[1]),
     error |-> NoData, self |-> self, exc |-> exc]

\* A mass_transition that goes on with the next item after one was refused,
\* and reports the first refusal at the end.
call_step_carry_on(cfg, c, call) ==
    LET r == transition_step(cfg, c, call.t)
        more == call.i < Len(call.items)
        error == IF r.t.pc = "raised" /\ call.error = NoData THEN r.t.error ELSE call.error
    IN IF r.t.pc \in {"raised", "returned"}
       THEN IF more
            THEN [conn |-> r.conn,
                  call |-> [call EXCEPT !.i = @ + 1, !.error = error,
                                        !.t = transition_start(call.items[call.i + 1])]]
            ELSE [conn |-> r.conn,
                  call |-> [call EXCEPT !.pc = IF error # NoData THEN "raised" ELSE "returned",
                                        !.t = r.t, !.error = error]]
       ELSE [conn |-> r.conn, call |-> [call EXCEPT !.t = r.t]]

\* StateMachine.mass_transition, and the single transition of the other
\* calls, one command at a time: [conn, call] after the next command. An
\* item that raises ends the call; one that returns is followed by the next.
call_step(cfg, c, call) ==
    LET r == transition_step(cfg, c, call.t)
    IN IF r.t.pc = "raised"
       THEN [conn |-> r.conn, call |-> [call EXCEPT !.pc = "raised", !.t = r.t, !.error = r.t.error]]
       ELSE IF r.t.pc = "returned"
       THEN IF call.i < Len(call.items)
            THEN [conn |-> r.conn,
                  call |-> [call EXCEPT !.i = @ + 1,
                                        !.t = transition_start(call.items[call.i + 1])]]
            ELSE [conn |-> r.conn, call |-> [call EXCEPT !.pc = "returned", !.t = r.t]]
       ELSE [conn |-> r.conn, call |-> [call EXCEPT !.t = r.t]]

\* StateMachine.get_current_state_info
get_current_state_info(c, object_tag, def_tag) ==
    LET state_info == backend_get_current_state_info(c, object_tag, def_tag)
    IN IF state_info # NoData
       THEN [state_info EXCEPT !.object_tag = object_tag, !.def_tag = def_tag]
       ELSE NoData

\* A get_history that returns None for a pair without a stored history.
get_history_or_none(c, object_tag, def_tag) ==
    IF hget(c, PATTERN_STATE_HISTORY(def_tag), object_tag) = NoData
    THEN NoData
    ELSE LET history == backend_get_history(c, object_tag, def_tag)
         IN [i \in 1..Len(history) |-> loads(history[i])]

\* StateMachine.get_history
get_history(c, object_tag, def_tag) ==
    LET history == backend_get_history(c, object_tag, def_tag)
    IN [i \in 1..Len(history) |-> loads(history[i])]

-----------------------------------------------------------------------------
(* transition_to *)

\* A Python dict with the given entries.
Dict(entries) == [dict |-> entries]

\* TransitionInfo(ctx): a Bunch updated with `ctx or {}`.
TransitionInfo(ctx) == IF ctx = NoData THEN Dict({}) ELSE Dict(ctx.dict)

\* The def_tag '' of __init__.
EmptyTag == <<>>

\* A get_def_tag that settles for the first definition that lists the type.
get_def_tag_first(otd, object_type, object_id, state_new, def_name, def_version) ==
    IF object_type \notin DOMAIN otd
    THEN [raised |-> "KeyError", error |-> [kind |-> "KeyError", names |-> <<object_type>>],
          def_tag |-> EmptyTag]
    ELSE [raised |-> "", error |-> NoData, def_tag |-> otd[object_type][1]]

\* StateMachine.get_def_tag: [raised, error, def_tag]. An object_type that
\* is no key of object_type_to_def ends the lookup in a KeyError.
get_def_tag(otd, object_type, object_id, state_new, def_name, def_version) ==
    IF object_type \notin DOMAIN otd
    THEN [raised |-> "KeyError", error |-> [kind |-> "KeyError", names |-> <<object_type>>],
          def_tag |-> EmptyTag]
    ELSE LET def_tag == otd[object_type]
         IN IF Len(def_tag) > 1
            THEN [raised |-> "TransitionError",
                  error |-> [kind |-> "Ambiguous input",
                             names |-> <<object_type, def_tag, object_id, state_new, def_name,
                                         def_version>>],
                  def_tag |-> EmptyTag]
            ELSE [raised |-> "", error |-> NoData, def_tag |-> def_tag[1]]

\* transition_to.__init__: the attributes of the object.
transition_to(object_type, object_id, state_new, def_name, def_version, user_ctx, force) ==
    [object_type |-> object_type, object_id |-> object_id, state_new |-> state_new,
     def_name |-> def_name, def_version |-> def_version, force |-> force,
     ctx |-> TransitionInfo(user_ctx),
     object_tag |-> get_object_tag(object_type, object_id),
     def_tag |-> EmptyTag]

\* transition_to.__enter__, the resolution of self.def_tag: [raised, error, def_tag].
enter_def_tag(otd, self) ==
    IF self.def_name = None
    THEN IF self.object_type \notin DOMAIN otd
         THEN [raised |-> "TransitionError",
               error |-> [kind |-> "Unknown object type",
                          names |-> <<self.object_type, self.object_id, self.state_new,
                                      self.def_name, self.def_version>>],
               def_tag |-> self.def_tag]
         ELSE get_def_tag(otd, self.object_type, self.object_id, self.state_new,
                          self.def_name, self.def_version)
    ELSE [raised |-> "", error |-> NoData, def_tag |-> self.def_tag]

\* An __enter__ that hands the context to the body whatever can_transition says.
enter_unvalidated(cfg, otd, c, self) ==
    LET tag == enter_def_tag(otd, self)
        self1 == [self EXCEPT !.def_tag = tag.def_tag]
    IN IF tag.raised # ""
       THEN [raised |-> tag.raised, error |-> tag.error, self |-> self1]
       ELSE IF self1.def_tag \notin DOMAIN cfg
       THEN [raised |-> "KeyError", error |-> [kind |-> "KeyError", names |-> <<self1.def_tag>>],
             self |-> self1]
       ELSE [raised |-> "", error |-> NoData, self |-> self1]

\* transition_to.__enter__: [raised, error, self], raised being '' when
\* self.ctx is returned. self.config[def_tag] of can_transition raises
\* KeyError for a def_tag that is no key of config.
enter(cfg, otd, c, self) ==
    LET tag == enter_def_tag(otd, self)
        self1 == [self EXCEPT !.def_tag = tag.def_tag]
    IN IF tag.raised # ""
       THEN [raised |-> tag.raised, error |-> tag.error, self |-> self1]
       ELSE IF self1.def_tag \notin DOMAIN cfg
       THEN [raised |-> "KeyError", error |-> [kind |-> "KeyError", names |-> <<self1.def_tag>>],
             self |-> self1]
       ELSE LET can == can_transition(cfg, c, self1.object_tag, self1.state_new, self1.def_tag,
                                      self1.force)
            IN IF ~can.ok
               THEN [raised |-> "TransitionError", error |-> can.reason, self |-> self1]
               ELSE [raised |-> "", error |-> NoData, self |-> self1]

\* transition_to.__enter__: cfg after the call.
enter_config(cfg, otd, c, self) ==
    LET tag == enter_def_tag(otd, self)
    IN IF tag.raised = "" /\ tag.def_tag \in DOMAIN cfg
       THEN can_transition_config(cfg, c, self.object_tag, self.state_new, tag.def_tag, self.force)
       ELSE cfg

\* The transition __exit__ asks for: self.state_machine.transition(
\* self.object_tag, self.state_new, self.def_tag, None, self.ctx, self.force).
exit_transition(self) ==
    TransitionArgs(self.object_tag, self.state_new, self.def_tag, None, self.ctx, self.force, TRUE)

\* An __exit__ that commits whether or not the body raised.
exit_commit_anyway(self, exc_type) == <<exit_transition(self)>>

\* An __exit__ that commits with an empty context in place of self.ctx.
exit_drop_ctx(self, exc_type) ==
    IF ~exc_type THEN <<[exit_transition(self) EXCEPT !.user_ctx = Dict({})]>> ELSE <<>>

\* An __exit__ that forces its transition, so that the edges are not looked at again.
exit_forced(self, exc_type) ==
    IF ~exc_type THEN <<[exit_transition(self) EXCEPT !.force = TRUE]>> ELSE <<>>

\* transition_to.__exit__: the transitions it makes. With an exception of
\* the body it makes none and returns None, so that the exception goes on to
\* the caller; without one it returns True after its transition.
exit(self, exc_type) == IF ~exc_type THEN <<exit_transition(self)>> ELSE <<>>

-----------------------------------------------------------------------------
(* The calls, one action per call *)

NoScope == [pc |-> "none"]

\* No caller runs step by step.
NoThreads == [pc |-> "none"]

\* No Definition is built call by call.
NoGraph == [pc |-> "none"]

\* No invoke_retry is under way.
NoRetry == [pc |-> "none"]

Key(object_tag, def_tag) == <<object_tag, def_tag>>

\* The state name of the stored current-state record, None without one.
StoredStateOf(c, object_tag, def_tag) ==
    LET info == backend_get_current_state_info(c, object_tag, def_tag)
    IN IF info # NoData THEN info.state_current ELSE None

DoneOf(d, object_tag, def_tag) ==
    IF Key(object_tag, def_tag) \in DOMAIN d THEN d[Key(object_tag, def_tag)] ELSE <<>>

DoneAppend(d, object_tag, def_tag, call) ==
    [k \in (DOMAIN d) \cup {Key(object_tag, def_tag)} |->
        IF k = Key(object_tag, def_tag) THEN Append(DoneOf(d, object_tag, def_tag), call)
        ELSE d[k]]

\* The number of records in all the histories of c.
RECURSIVE RecordedIn(_, _)
RecordedIn(c, keys) ==
    IF keys = {} THEN 0
    ELSE LET x == CHOOSE y \in keys : TRUE
         IN (IF x[1][1] = "zato:bst:state:history" THEN Len(loads(c[x])) ELSE 0)
            + RecordedIn(c, keys \ {x})

Recorded(c) == RecordedIn(c, DOMAIN c)

\* sm.can_transition(object_tag, state_new, def_tag, force)
CanTransitionCall(object_tag, state_new, def_tag, force) ==
    /\ def_tag \in DOMAIN config
    /\ last' = [op |-> "can_transition", object_tag |-> object_tag, state_new |-> state_new,
                def_tag |-> def_tag, force |-> force,
                ret |-> can_transition(config, conn, object_tag, state_new, def_tag, force)]
    /\ config' = can_transition_config(config, conn, object_tag, state_new, def_tag, force)
    /\ pre' = conn
    /\ UNCHANGED <<object_type_to_def, conn, scope, done, threads, graph, retry>>

\* What a caller that is in no call holds.
Idle == [pc |-> "idle"]

\* The callers: a call is made by the first of them that is in no call.
Writers == {"w1", "w2"}

\* No caller is in a call. started counts the transitions that passed
\* their validation.
NoCalls == [pc |-> "calls", w |-> [w \in Writers |-> Idle], started |-> 0]

\* The callers that are in a call.
InCall(th) == {w \in Writers : th.w[w].pc # "idle"}

\* The (object_tag, def_tag) pairs a call makes transitions on.
CallPairs(call) == {Key(call.items[i].object_tag, call.items[i].def_tag) : i \in 1..Len(call.items)}

FreeCaller(th) == IF th.w["w1"].pc = "idle" THEN "w1" ELSE "w2"

\* A call started now overlaps with one that is under way.
Overlapping == InCall(threads) # {}

\* The state asked for by a call that starts while another is under way.
BesideStates == {"new"}

\* What a call that has ended leaves in last: its arguments and what it
\* returned or raised; alone tells that no other call was under way at any
\* time from its first command to its last.
Outcome(call, alone, c) ==
    LET item == call.items[1]
        raised == call.pc = "raised"
    IN IF call.kind = "transition"
       THEN [op |-> "transition", object_tag |-> item.object_tag, state_new |-> item.state_new,
             def_tag |-> item.def_tag, user_ctx |-> item.user_ctx, force |-> item.force,
             raise_on_error |-> item.raise_on_error,
             raised |-> raised, error |-> call.error,
             ret |-> IF raised THEN NoData ELSE call.t.ret, alone |-> alone]
       ELSE IF call.kind = "mass_transition"
       THEN [op |-> "mass_transition", items |-> call.items, raised |-> raised,
             error |-> call.error, attempted |-> call.i, alone |-> alone]
       ELSE [op |-> "exit", exc |-> call.exc, self |-> call.self,
             as_at_entry |-> (c = scope.at_entry), disturbed |-> scope.disturbed,
             raised |-> raised, error |-> call.error, propagated |-> FALSE, alone |-> alone]

\* Caller w sends the next command of its call to Redis: the hget of
\* can_transition or one of the three commands of set_current_state_info.
\* at holds the call, the store as it was when the call started, whether
\* the call has been alone so far and whether it has been apart, that is
\* beside no call on a pair of its own; fresh tells that this is the first
\* command of the call. A transition passes its validation only while
\* fewer than max have done so. The call that ends is reported in last; a
\* command that does not end it leaves its name there.
Perform(w, at, fresh, max) ==
    LET call == at.call
        item == call.t.item
        written == call.t.pc = "hset_history" /\ call.t.ret.ok
        others == InCall(threads) \ {w}
    IN \E r \in {call_step(config, conn, call)} :
       \E accepted \in {call.t.pc = "can_transition" /\ r.call.t.pc = "hset_current"} :
       \E ended \in {r.call.pc # "run"} :
          /\ accepted => threads.started < max
          /\ conn' = r.conn
          /\ config' = transition_step_config(config, conn, call.t)
          /\ threads' = [threads EXCEPT
                            !.started = IF accepted THEN @ + 1 ELSE @,
                            !.w = [v \in Writers |->
                                      IF v = w
                                      THEN IF ended THEN Idle ELSE [at EXCEPT !.call = r.call]
                                      ELSE IF fresh /\ v \in others
                                      THEN [threads.w[v] EXCEPT
                                               !.alone = FALSE,
                                               !.apart = @ /\ CallPairs(threads.w[v].call)
                                                                  \cap CallPairs(call) = {}]
                                      ELSE threads.w[v]]]
          /\ last' = IF ended THEN Outcome(r.call, at.alone, r.conn)
                     ELSE [op |-> "command", caller |-> w, kind |-> call.kind, pc |-> call.t.pc]
          /\ pre' = at.pre
          /\ done' = IF written /\ call.kind # "mass_transition"
                     THEN DoneAppend(done, item.object_tag, item.def_tag,
                                     [state_new |-> item.state_new, force |-> item.force,
                                      user_ctx |-> item.user_ctx,
                                      state_old |-> call.t.ret.state_old, apart |-> at.apart])
                     ELSE done
          /\ scope' = IF call.kind = "exit"
                      THEN IF ended THEN NoScope ELSE [scope EXCEPT !.pc = "exit"]
                      ELSE IF scope.pc # "none" /\ r.conn # conn
                      THEN [scope EXCEPT !.disturbed = TRUE]
                      ELSE scope
          /\ UNCHANGED <<object_type_to_def, graph, retry>>

\* A caller that is in no call starts one and sends its first command.
StartCall(call, max) ==
    /\ threads.pc = "calls"
    /\ InCall(threads) # Writers
    /\ Perform(FreeCaller(threads),
               [pc |-> "busy", call |-> call, pre |-> conn, alone |-> InCall(threads) = {},
                apart |-> \A v \in InCall(threads) :
                             CallPairs(threads.w[v].call) \cap CallPairs(call) = {}],
               TRUE, max)

\* A caller that is in a call sends the next command of it.
Command(w, max) ==
    /\ threads.pc = "calls"
    /\ threads.w[w].pc = "busy"
    /\ Perform(w, threads.w[w], FALSE, max)

\* sm.transition(object_tag, state_new, def_tag, None, user_ctx, force, raise_on_error)
\* is called: its first command is sent.
TransitionCall(object_tag, state_new, def_tag, user_ctx, force, raise_on_error, max) ==
    /\ def_tag \in DOMAIN config
    /\ StartCall(call_start("transition",
                            <<TransitionArgs(object_tag, state_new, def_tag, None, user_ctx,
                                             force, raise_on_error)>>,
                            NoData, FALSE),
                 max)

\* sm.mass_transition(items) is called with a list that is not empty: the
\* first command of its first transition is sent.
MassTransitionCall(items, max) ==
    /\ \A i \in 1..Len(items) : items[i].def_tag \in DOMAIN config
    /\ StartCall(call_start("mass_transition", items, NoData, FALSE), max)

\* sm.get_def_tag(object_type, object_id, state_new, def_name, def_version)
GetDefTagCall(object_type, object_id, state_new, def_name, def_version) ==
    /\ LET r == get_def_tag(object_type_to_def, object_type, object_id, state_new, def_name,
                            def_version)
       IN last' = [op |-> "get_def_tag", object_type |-> object_type, object_id |-> object_id,
                   state_new |-> state_new, def_name |-> def_name, def_version |-> def_version,
                   raised |-> r.raised, error |-> r.error, ret |-> r.def_tag]
    /\ pre' = conn
    /\ UNCHANGED <<config, object_type_to_def, conn, scope, done, threads, graph, retry>>

\* `with transition_to(service, object_type, object_id, state_new, def_name,
\* def_version, user_ctx, force) as ctx:` up to the start of the body.
\* at_entry and disturbed record, for the claims, the store at entry and
\* whether another call wrote to it since; as_at_entry of an exit tells
\* whether the store it leaves is the store at entry.
ScopeEnter(object_type, object_id, state_new, def_name, def_version, user_ctx, force) ==
    /\ scope.pc = "none"
    /\ LET self == transition_to(object_type, object_id, state_new, def_name, def_version,
                                 user_ctx, force)
           r == enter(config, object_type_to_def, conn, self)
       IN /\ scope' = IF r.raised = ""
                      THEN [pc |-> "body", self |-> r.self, at_entry |-> conn, disturbed |-> FALSE]
                      ELSE NoScope
          /\ last' = [op |-> "enter", self |-> r.self, raised |-> r.raised, error |-> r.error]
          /\ config' = enter_config(config, object_type_to_def, conn, self)
    /\ pre' = conn
    /\ UNCHANGED <<object_type_to_def, conn, done, threads, graph, retry>>

\* The body sets an entry of the context it was given.
ScopeBodySet(entry) ==
    /\ scope.pc = "body"
    /\ entry \notin scope.self.ctx.dict
    /\ scope' = [scope EXCEPT !.self.ctx = Dict(@.dict \cup {entry})]
    /\ last' = [op |-> "body_set", entry |-> entry]
    /\ pre' = conn
    /\ UNCHANGED <<config, object_type_to_def, conn, done, threads, graph, retry>>

\* __exit__ is called, with the exception of the body or without one. When
\* it has a transition to make, the first command of it is sent; the scope
\* is left when the transition has returned or raised.
ScopeExit(exc, max) ==
    /\ scope.pc = "body"
    /\ LET self == scope.self
           items == exit(self, exc)
       IN IF items = <<>>
          THEN /\ last' = [op |-> "exit", exc |-> exc, self |-> self,
                           as_at_entry |-> (conn = scope.at_entry),
                           disturbed |-> scope.disturbed,
                           raised |-> FALSE, error |-> NoData, propagated |-> exc,
                           alone |-> TRUE]
               /\ scope' = NoScope
               /\ pre' = conn
               /\ UNCHANGED <<config, object_type_to_def, conn, done, threads, graph, retry>>
          ELSE StartCall(call_start("exit", items, self, exc), max)

\* The body raises: __exit__ is called with the exception.
ScopeExitRaised == ScopeExit(TRUE, MaxHist)

\* The body ends without an exception: __exit__(None, None, None).
ScopeExitDone(max) == ScopeExit(FALSE, max)

\* sm.transition called by the body or by another caller while the
\* transition_to is open.
TransitionBeside(object_tag, state_new, def_tag, user_ctx, force, raise_on_error, max) ==
    /\ scope.pc \in {"body", "exit"}
    /\ TransitionCall(object_tag, state_new, def_tag, user_ctx, force, raise_on_error, max)

-----------------------------------------------------------------------------
(* The calls of concurrent callers, one action per command sent to Redis *)

\* The callers in the middle of a transition on (object_tag, def_tag), w aside.
Busy(th, w, object_tag, def_tag) ==
    {v \in (DOMAIN th.w) \ {w} :
        /\ th.w[v].pc # "idle"
        /\ th.w[v].object_tag = object_tag
        /\ th.w[v].def_tag = def_tag}

\* The pairs other callers are in the middle of a transition on.
Beside(th, w) ==
    {Key(th.w[v].object_tag, th.w[v].def_tag) : v \in {u \in (DOMAIN th.w) \ {w} : th.w[u].pc # "idle"}}

\* Caller w calls sm.transition(object_tag, state_new, def_tag, None,
\* user_ctx, force): can_transition reads the current-state record and
\* decides; a refusal is raised, otherwise the record is built and
\* set_current_state_info is about to send its first command. raced
\* collects the pairs on which a transition was started while another one
\* was under way.
TransitionBegin(w, object_tag, state_new, def_tag, user_ctx, force, max) ==
    /\ threads.pc = "run"
    /\ threads.w[w].pc = "idle"
    /\ threads.started < max
    /\ def_tag \in DOMAIN config
    /\ LET can == can_transition(config, conn, object_tag, state_new, def_tag, force)
           call == [pc |-> "hset_current", object_tag |-> object_tag, def_tag |-> def_tag,
                    state_new |-> state_new, user_ctx |-> user_ctx, force |-> force,
                    state_old |-> can.state_old,
                    state_info |-> dumps(get_transition_info(can.state_old, state_new, object_tag,
                                                             def_tag, None, user_ctx, force)),
                    history |-> <<>>]
       IN /\ threads' = [threads EXCEPT
                            !.started = @ + 1,
                            !.w[w] = IF can.ok THEN call ELSE Idle,
                            !.raced = IF can.ok /\ Busy(threads, w, object_tag, def_tag) # {}
                                      THEN @ \cup {Key(object_tag, def_tag)} ELSE @]
          /\ last' = [op |-> "begin", caller |-> w, object_tag |-> object_tag,
                      def_tag |-> def_tag, state_new |-> state_new, force |-> force,
                      raised |-> ~can.ok, error |-> IF can.ok THEN NoData ELSE can.reason]
    /\ config' = can_transition_config(config, conn, object_tag, state_new, def_tag, force)
    /\ pre' = conn
    /\ UNCHANGED <<object_type_to_def, conn, scope, done, graph, retry>>

\* Caller w sends the next command of set_current_state_info; after the
\* last one transition returns (True, '', state_old, state_new). A write to
\* the pair a reader is reading between its two calls is noted in torn.
BackendCommand(w) ==
    /\ threads.pc = "run"
    /\ threads.w[w].pc \in {"hset_current", "get_history", "hset_history"}
    /\ LET call == threads.w[w]
           r == set_current_state_info_step(conn, call.pc, call.history, call.object_tag,
                                            call.def_tag, call.state_info)
           read == threads.r
           tears == /\ read.pc = "got_current"
                    /\ read.object_tag = call.object_tag /\ read.def_tag = call.def_tag
                    /\ r.conn # conn
       IN /\ conn' = r.conn
          /\ threads' = [threads EXCEPT
                            !.w[w] = IF r.pc = "return" THEN Idle
                                     ELSE [call EXCEPT !.pc = r.pc, !.history = r.history],
                            !.r = IF tears THEN [read EXCEPT !.torn = TRUE] ELSE read]
          /\ last' = [op |-> call.pc, caller |-> w, object_tag |-> call.object_tag,
                      def_tag |-> call.def_tag, returned |-> (r.pc = "return"),
                      ret |-> Result(TRUE, NoReason, call.state_old, call.state_new),
                      beside |-> Beside(threads, w)]
          /\ done' = IF r.pc = "return"
                     THEN DoneAppend(done, call.object_tag, call.def_tag,
                                     [state_new |-> call.state_new, force |-> call.force,
                                      user_ctx |-> call.user_ctx, state_old |-> call.state_old])
                     ELSE done
    /\ pre' = conn
    /\ UNCHANGED <<config, object_type_to_def, scope, graph, retry>>

\* A reader calls sm.get_current_state_info(object_tag, def_tag) ..
ReaderGetCurrent(object_tag, def_tag) ==
    /\ threads.pc = "run"
    /\ threads.r.pc = "idle"
    /\ threads' = [threads EXCEPT
                      !.r = [pc |-> "got_current", object_tag |-> object_tag, def_tag |-> def_tag,
                             current |-> get_current_state_info(conn, object_tag, def_tag),
                             torn |-> FALSE]]
    /\ last' = [op |-> "get_current_state_info", object_tag |-> object_tag, def_tag |-> def_tag]
    /\ pre' = conn
    /\ UNCHANGED <<config, object_type_to_def, conn, scope, done, graph, retry>>

\* .. and then sm.get_history(object_tag, def_tag). What it has seen is
\* kept in last, with the number of transitions under way on the pair.
ReaderGetHistory ==
    /\ threads.pc = "run"
    /\ threads.r.pc = "got_current"
    /\ LET read == threads.r
       IN last' = [op |-> "read", object_tag |-> read.object_tag, def_tag |-> read.def_tag,
                   current |-> read.current,
                   history |-> get_history(conn, read.object_tag, read.def_tag),
                   torn |-> read.torn,
                   writers |-> Cardinality(Busy(threads, "reader", read.object_tag, read.def_tag)),
                   raced |-> (Key(read.object_tag, read.def_tag) \in threads.raced)]
    /\ threads' = [threads EXCEPT !.r = Idle]
    /\ pre' = conn
    /\ UNCHANGED <<config, object_type_to_def, conn, scope, done, graph, retry>>

-----------------------------------------------------------------------------
(* Spec: one definition out of a family of parsed blocks, one object *)

\* The edges a block of the family may declare: a chain, a shortcut along
\* it, a self-loop and an edge that closes a cycle through every state.
CandidateEdges ==
    {<<"new", "submitted">>, <<"submitted", "ready">>, <<"new", "ready">>,
     <<"ready", "ready">>, <<"ready", "new">>}

EdgeSets == SUBSET CandidateEdges

\* force_stop lists: none, a name that is never a node, a name that may be a node too.
ForceStops == {<<>>, <<"canceled">>, <<"new", "canceled">>}

\* The lines of the block [Orders] that declares the edges of E.
BlockOf(E, force_stop) ==
    LET froms == SetToSeq({e[1] : e \in E})
        tos(f) == {e[2] : e \in {x \in E : x[1] = f}}
        value(S) == IF Cardinality(S) = 1 THEN Scalar(CHOOSE x \in S : TRUE) ELSE List(SetToSeq(S))
    IN <<[key |-> "objects", value |-> Scalar("order")]>>
       \o (IF force_stop = <<>> THEN <<>>
           ELSE <<[key |-> "force_stop",
                   value |-> IF Len(force_stop) = 1 THEN Scalar(force_stop[1]) ELSE List(force_stop)]>>)
       \o [i \in 1..Len(froms) |-> [key |-> froms[i], value |-> value(tos(froms[i]))]]

\* StateMachine({item.def_.tag: item}, RedisBackend(conn)) over an empty Redis.
InitWith(item) ==
    /\ config = [t \in {item.def_.tag} |-> item]
    /\ \E def_tags \in config_items(config) : object_type_to_def = set_up(config, def_tags)
    /\ conn = [x \in {} |-> NoData]
    /\ scope = NoScope
    /\ last = [op |-> "init"]
    /\ pre = [x \in {} |-> NoData]
    /\ done = [k \in {} |-> <<>>]
    /\ threads = NoCalls
    /\ retry = NoRetry
    /\ graph = NoGraph

Init ==
    \E E \in EdgeSets, force_stop \in ForceStops :
        InitWith(parse_config_dict("Orders", BlockOf(E, force_stop)))

OrdersTag == get_tag("Orders", DEFAULT_GRAPH_VERSION)

Order1 == get_object_tag("order", "1")

\* sm.can_transition on the object: any name, forced or not, while no call
\* is under way; a first state, not forced, beside a call.
CanTransitionStep ==
    \E state_new \in IF Overlapping THEN BesideStates ELSE Names,
       force \in IF Overlapping THEN {FALSE} ELSE BOOLEAN :
        CanTransitionCall(Order1, state_new, OrdersTag, force)

\* sm.transition on the object: any name, forced so that one call takes
\* the object to any node, while no call is under way; a first state, not
\* forced, beside another call.
TransitionStep ==
    \E state_new \in IF Overlapping THEN BesideStates ELSE Names :
        TransitionCall(Order1, state_new, OrdersTag, NoData, ~Overlapping, TRUE, MaxMoves)

\* A caller that is in a transition sends its next command.
CommandStep == \E w \in Writers : Command(w, MaxMoves)

Next == CanTransitionStep \/ TransitionStep \/ CommandStep

Spec == Init /\ [][Next]_vars

-----------------------------------------------------------------------------
(* SpecOps: the block [Orders] below, two objects, single transitions *)

\* [Orders]
\* objects=order, priority.order
\* force_stop=canceled
\* new=submitted
\* submitted=ready
\* ready=ready, submitted
OrdersBlock ==
    <<[key |-> "objects", value |-> List(<<"order", "priority.order">>)],
      [key |-> "force_stop", value |-> Scalar("canceled")],
      [key |-> "new", value |-> Scalar("submitted")],
      [key |-> "submitted", value |-> Scalar("ready")],
      [key |-> "ready", value |-> List(<<"ready", "submitted">>)]>>

Order2 == get_object_tag("order", "2")

InitOps == InitWith(parse_config_dict("Orders", OrdersBlock))

\* What sm.transition is called with while no call is under way: every
\* name for either object, not forced and raising; every name for order 1,
\* forced; every name for order 2, not raising.
TransitionArgsOps ==
    [object_tag : {Order1, Order2}, state_new : Names, force : {FALSE}, raise_on_error : {TRUE}]
    \cup [object_tag : {Order1}, state_new : Names, force : {TRUE}, raise_on_error : {TRUE}]
    \cup [object_tag : {Order2}, state_new : Names, force : {FALSE}, raise_on_error : {FALSE}]

\* What it is called with while another call is under way: the root state
\* of order 1, not forced.
TransitionArgsOverlap ==
    [object_tag : {Order1}, state_new : BesideStates, force : {FALSE}, raise_on_error : {TRUE}]

TransitionStepOps ==
    \E a \in IF Overlapping THEN TransitionArgsOverlap ELSE TransitionArgsOps :
        TransitionCall(a.object_tag, a.state_new, OrdersTag, NoData, a.force, a.raise_on_error,
                       MaxHist)

CommandStepOps == \E w \in Writers : Command(w, MaxHist)

NextOps == TransitionStepOps \/ CommandStepOps

SpecOps == InitOps /\ [][NextOps]_vars

-----------------------------------------------------------------------------
(* SpecMass: the same block, lists of transitions of one object *)

\* An item (object_tag, state_new, def_tag, server_ctx): the other
\* arguments of transition keep their defaults.
Item(object_tag, state_new) ==
    [object_tag |-> object_tag, state_new |-> state_new, def_tag |-> OrdersTag,
     server_ctx |-> None, user_ctx |-> NoData, force |-> FALSE, raise_on_error |-> TRUE]

\* The states of the block an item asks for.
Items == {Item(Order1, s) : s \in StateNames}

ItemLists == UNION {[1..n -> Items] : n \in 1..MaxItems}

\* Any of the lists while no call is under way, a list of one item beside
\* another call.
MassTransitionStep ==
    \E items \in IF Overlapping THEN {<<Item(Order1, s)>> : s \in BesideStates} ELSE ItemLists :
        MassTransitionCall(items, MaxHist)

CommandStepMass == \E w \in Writers : Command(w, MaxHist)

NextMass == MassTransitionStep \/ CommandStepMass

SpecMass == InitOps /\ [][NextMass]_vars

-----------------------------------------------------------------------------
(* SpecScope: the same block, transition_to on one object, with direct     *)
(* transitions of that object beside it                                    *)

\* What callers enter a transition_to with: every target state, not
\* forced, and the last state of the block, forced, for an object of the
\* type the block lists, found through its type; an object of a type no
\* block lists; and the definition given by name.
EnterArgs ==
    {[object_type |-> "order", state_new |-> s, def_name |-> None, def_version |-> None,
      force |-> FALSE] : s \in Names}
    \cup {[object_type |-> "order", state_new |-> "ready", def_name |-> None,
           def_version |-> None, force |-> TRUE]}
    \cup {[object_type |-> "invoice", state_new |-> "new", def_name |-> None,
           def_version |-> None, force |-> FALSE],
          [object_type |-> "order", state_new |-> "new", def_name |-> "Orders",
           def_version |-> DEFAULT_GRAPH_VERSION, force |-> FALSE]}

ScopeEnterStep ==
    \E a \in EnterArgs :
        ScopeEnter(a.object_type, "1", a.state_new, a.def_name, a.def_version, NoData, a.force)

ScopeBodySetStep == ScopeBodySet("note")

ScopeExitRaisedStep == ScopeExitRaised

ScopeExitDoneStep == ScopeExitDone(MaxScopeWrites)

\* One caller beside the one that entered the transition_to, its
\* transitions not forced: its calls overlap with the exit, not with one
\* another.
TransitionBesideStep ==
    /\ Overlapping => scope.pc = "exit"
    /\ \E state_new \in IF Overlapping THEN BesideStates ELSE Names :
           TransitionBeside(Order1, state_new, OrdersTag, NoData, FALSE, TRUE, MaxScopeWrites)

CommandStepScope == \E w \in Writers : Command(w, MaxScopeWrites)

NextScope ==
    \/ CommandStepScope
    \/ ScopeEnterStep
    \/ ScopeBodySetStep
    \/ ScopeExitRaisedStep
    \/ ScopeExitDoneStep
    \/ TransitionBesideStep

SpecScope == InitOps /\ [][NextScope]_vars

-----------------------------------------------------------------------------
(* SpecTwo: two definitions, one object type listed by both, transition_to *)
(* by type and by name                                                      *)

\* [Priority]
\* objects=priority.order
\* new=ready
PriorityBlock ==
    <<[key |-> "objects", value |-> Scalar("priority.order")],
      [key |-> "new", value |-> Scalar("ready")]>>

\* The config dictionary of the parsed items, keyed by the tag of each definition.
ConfigOf(items) == [t \in {item.def_.tag : item \in items} |->
                        CHOOSE item \in items : item.def_.tag = t]

\* StateMachine(config, RedisBackend(conn)) over an empty Redis.
InitConfig(cfg) ==
    /\ config = cfg
    /\ \E def_tags \in config_items(cfg) : object_type_to_def = set_up(cfg, def_tags)
    /\ conn = [x \in {} |-> NoData]
    /\ scope = NoScope
    /\ last = [op |-> "init"]
    /\ pre = [x \in {} |-> NoData]
    /\ done = [k \in {} |-> <<>>]
    /\ threads = NoCalls
    /\ retry = NoRetry
    /\ graph = NoGraph

InitTwo ==
    InitConfig(ConfigOf({parse_config_dict("Orders", OrdersBlock),
                         parse_config_dict("Priority", PriorityBlock)}))

PriorityTag == get_tag("Priority", DEFAULT_GRAPH_VERSION)

\* The object types callers name: listed by [Orders] alone, by both
\* definitions, by none.
ObjectTypes == {"order", "priority.order", "invoice"}

\* What callers enter a transition_to with: every target state for the
\* type one definition lists, the definition found through the type, and
\* two of them forced; the root for the other types; and [Orders] given by
\* name for every type.
EnterArgsTwo ==
    {[object_type |-> "order", state_new |-> s, def_name |-> None, def_version |-> None,
      force |-> FALSE] : s \in Names}
    \cup {[object_type |-> "order", state_new |-> s, def_name |-> None, def_version |-> None,
           force |-> TRUE] : s \in {"ready", "canceled"}}
    \cup {[object_type |-> t, state_new |-> "new", def_name |-> None, def_version |-> None,
           force |-> FALSE] : t \in ObjectTypes \ {"order"}}
    \cup {[object_type |-> t, state_new |-> "new", def_name |-> "Orders",
           def_version |-> DEFAULT_GRAPH_VERSION, force |-> FALSE] : t \in ObjectTypes}

ScopeEnterStepTwo ==
    \E a \in EnterArgsTwo :
        ScopeEnter(a.object_type, "1", a.state_new, a.def_name, a.def_version, NoData, a.force)

\* sm.transition, not forced, on an object of either listed type under a
\* definition that lists the type, while no transition_to is open and no
\* other call is under way.
TransitionStepTwo ==
    /\ scope.pc = "none"
    /\ ~Overlapping
    /\ \E p \in {<<"order", OrdersTag>>, <<"priority.order", PriorityTag>>}, state_new \in Names :
           TransitionCall(get_object_tag(p[1], "1"), state_new, p[2], NoData, FALSE,
                          TRUE, MaxScopeWrites)

\* What get_def_tag is called with beside the object type: nothing, as its
\* defaults allow, or what a transition_to passes on.
GetDefTagArgs ==
    {[object_id |-> None, state_new |-> None, def_name |-> None, def_version |-> None],
     [object_id |-> "1", state_new |-> "new", def_name |-> None, def_version |-> None],
     [object_id |-> "1", state_new |-> "ready", def_name |-> "Orders",
      def_version |-> DEFAULT_GRAPH_VERSION],
     [object_id |-> "2", state_new |-> "canceled", def_name |-> "Priority",
      def_version |-> DEFAULT_GRAPH_VERSION]}

\* get_def_tag reads nothing of the store: it is called between the
\* other calls.
GetDefTagStep ==
    /\ scope.pc = "none"
    /\ ~Overlapping
    /\ \E object_type \in ObjectTypes, a \in GetDefTagArgs :
           GetDefTagCall(object_type, a.object_id, a.state_new, a.def_name, a.def_version)

NextTwo ==
    \/ CommandStepScope
    \/ GetDefTagStep
    \/ ScopeEnterStepTwo
    \/ ScopeBodySetStep
    \/ ScopeExitRaisedStep
    \/ ScopeExitDoneStep
    \/ TransitionStepTwo

SpecTwo == InitTwo /\ [][NextTwo]_vars

-----------------------------------------------------------------------------
(* SpecRace: the two definitions, two callers of transition and a reader,  *)
(* their commands to Redis interleaved                                      *)

\* The pairs the callers work on: an object under either definition, and
\* another object.
RacePairs == {Key(Order1, OrdersTag), Key(Order1, PriorityTag), Key(Order2, OrdersTag)}

\* The user context of the n-th call started: every caller passes a
\* context of its own, so that no two records are equal.
CallIds == <<"call-1", "call-2", "call-3", "call-4">>

InitRace ==
    /\ config = ConfigOf({parse_config_dict("Orders", OrdersBlock),
                          parse_config_dict("Priority", PriorityBlock)})
    /\ \E def_tags \in config_items(config) : object_type_to_def = set_up(config, def_tags)
    /\ conn = [x \in {} |-> NoData]
    /\ scope = NoScope
    /\ last = [op |-> "init"]
    /\ pre = [x \in {} |-> NoData]
    /\ done = [k \in {} |-> <<>>]
    /\ threads = [pc |-> "run", w |-> [w \in Writers |-> Idle], r |-> Idle,
                  started |-> 0, raced |-> {}]
    /\ retry = NoRetry
    /\ graph = NoGraph

\* The states the callers ask for: the root, its successor in [Orders] and
\* the force_stop state of [Orders].
RaceStates == {"new", "submitted", "canceled"}

TransitionBeginStep ==
    \E w \in Writers, p \in RacePairs, state_new \in RaceStates :
        TransitionBegin(w, p[1], state_new, p[2], Dict({CallIds[threads.started + 1]}), FALSE,
                        MaxRaceCalls)

BackendCommandStep == \E w \in Writers : BackendCommand(w)

ReaderGetCurrentStep == \E p \in RacePairs : ReaderGetCurrent(p[1], p[2])

ReaderGetHistoryStep == ReaderGetHistory

NextRace ==
    \/ TransitionBeginStep
    \/ BackendCommandStep
    \/ ReaderGetCurrentStep
    \/ ReaderGetHistoryStep

SpecRace == InitRace /\ [][NextRace]_vars

-----------------------------------------------------------------------------
(* What the claims speak of, read off the state without the operators of   *)
(* the StateMachine                                                        *)

\* The state name in the stored current-state record, None when there is none.
StoredState(c, object_tag, def_tag) ==
    IF <<PATTERN_STATE_CURRENT(def_tag), object_tag>> \in DOMAIN c
    THEN c[<<PATTERN_STATE_CURRENT(def_tag), object_tag>>].json.state_current
    ELSE None

NodesOf(def_tag) == DOMAIN config[def_tag].def_.nodes

EdgeOf(def_tag, s, t) ==
    s \in NodesOf(def_tag) /\ t \in config[def_tag].def_.nodes[s]

\* The nodes no edge of the graph leads to.
RootsOf(def_tag) ==
    {n \in NodesOf(def_tag) : \A m \in NodesOf(def_tag) : ~EdgeOf(def_tag, m, n)}

ForceStopOf(def_tag) == Range(config[def_tag].force_stop)

\* The last call was can_transition on an object that had no state / had state s.
AskedFresh ==
    last.op = "can_transition" /\ StoredState(conn, last.object_tag, last.def_tag) = None

AskedAt(s) ==
    last.op = "can_transition" /\ StoredState(conn, last.object_tag, last.def_tag) = s

-----------------------------------------------------------------------------
(* Claims on can_transition, under Spec *)

\* C1 as stated: for an object with no current state, can_transition with
\* force=false returns ok=true if and only if state_new is a root.
C1_RootStartOnly ==
    (AskedFresh /\ ~last.force)
        => (last.ret.ok <=> last.state_new \in RootsOf(last.def_tag))

\* C1 amended: for an object with no current state, can_transition with
\* force=false returns ok=true if and only if state_new is a root or is in
\* the definition's force_stop list.
C1_RootOrStopStart ==
    (AskedFresh /\ ~last.force)
        => (last.ret.ok <=> last.state_new \in RootsOf(last.def_tag) \cup ForceStopOf(last.def_tag))

\* A fresh object is allowed a force_stop state that is no root, and the
\* definition has a root and a node that is none.
C1_Witness ==
    /\ AskedFresh /\ ~last.force /\ last.ret.ok
    /\ last.state_new \in ForceStopOf(last.def_tag) \ RootsOf(last.def_tag)
    /\ RootsOf(last.def_tag) # {}
    /\ NodesOf(last.def_tag) \ RootsOf(last.def_tag) # {}

\* C2: for an object in state s, can_transition with force=false to a state
\* t outside force_stop returns ok=true if and only if the definition has
\* the edge s -> t, and a rejection carries state_old = s.
C2_DirectEdgeOnly ==
    \A s \in Names :
        (AskedAt(s) /\ ~last.force /\ last.state_new \notin ForceStopOf(last.def_tag))
            => /\ last.ret.ok <=> EdgeOf(last.def_tag, s, last.state_new)
               /\ ~last.ret.ok => last.ret.state_old = s

\* s -> mid -> t are edges, s -> t is none, and s to t is rejected.
C2_Witness ==
    \E s \in Names, mid \in Names :
        /\ AskedAt(s) /\ ~last.force /\ last.state_new \notin ForceStopOf(last.def_tag)
        /\ EdgeOf(last.def_tag, s, mid) /\ EdgeOf(last.def_tag, mid, last.state_new)
        /\ ~EdgeOf(last.def_tag, s, last.state_new)
        /\ ~last.ret.ok /\ last.ret.state_old = s

\* C3: whatever the object's state and the force argument, can_transition
\* to a state of the force_stop list returns ok=true.
C3_ForceStopAlways ==
    (last.op = "can_transition" /\ last.state_new \in ForceStopOf(last.def_tag))
        => last.ret.ok

\* An object already in force_stop state X, X no node, is allowed X again without force.
C3_Witness ==
    /\ last.op = "can_transition" /\ ~last.force /\ last.ret.ok
    /\ last.state_new \in ForceStopOf(last.def_tag) \ NodesOf(last.def_tag)
    /\ AskedAt(last.state_new)

\* C4: can_transition with force=true returns ok=true for every node of
\* the definition, whatever the object's state.
C4_ForceAnyNode ==
    (last.op = "can_transition" /\ last.force /\ last.state_new \in NodesOf(last.def_tag))
        => last.ret.ok

\* A fresh object is forced into a node that is neither a root nor a force_stop state.
C4_Witness ==
    /\ AskedFresh /\ last.force /\ last.ret.ok
    /\ last.state_new \in NodesOf(last.def_tag)
    /\ last.state_new \notin RootsOf(last.def_tag) \cup ForceStopOf(last.def_tag)

-----------------------------------------------------------------------------
(* Claims on transition, under SpecOps *)

CurrentKey(object_tag, def_tag) == <<PATTERN_STATE_CURRENT(def_tag), object_tag>>

HistoryKey(object_tag, def_tag) == <<PATTERN_STATE_HISTORY(def_tag), object_tag>>

\* The stored current-state record and the stored list of records, decoded.
StoredRecord(c, object_tag, def_tag) ==
    IF CurrentKey(object_tag, def_tag) \in DOMAIN c
    THEN c[CurrentKey(object_tag, def_tag)].json ELSE NoData

StoredHistory(c, object_tag, def_tag) ==
    IF HistoryKey(object_tag, def_tag) \in DOMAIN c
    THEN [i \in 1..Len(c[HistoryKey(object_tag, def_tag)].json) |->
              c[HistoryKey(object_tag, def_tag)].json[i].json]
    ELSE <<>>

\* Whatever c1 stores for other objects or definitions, c2 stores too, and nothing more.
SameElsewhere(c1, c2, object_tag, def_tag) ==
    LET mine == {CurrentKey(object_tag, def_tag), HistoryKey(object_tag, def_tag)}
    IN /\ (DOMAIN c1) \ mine = (DOMAIN c2) \ mine
       /\ \A x \in (DOMAIN c1) \ mine : c1[x] = c2[x]

\* What the definition allows an object whose stored state is s: the
\* protocol of the specification, stated on the graph.
Allowed(def_tag, s, state_new, force) ==
    \/ force /\ state_new \in NodesOf(def_tag)
    \/ state_new \in ForceStopOf(def_tag)
    \/ s = None /\ state_new \in RootsOf(def_tag)
    \/ s # None /\ EdgeOf(def_tag, s, state_new)

\* C5: a transition that can_transition allows, made while no other call
\* is under way, stores one record, with state_old the state just before
\* the call (None for a fresh object), state_current = state_new and
\* is_forced = force; it returns (true, '', state_old, state_new), and
\* get_current_state_info then reports state_current = state_new. With or
\* without other calls beside it, a transition that returns ok has put as
\* the last record of the history the one it returned: state_old as
\* returned, state_current = state_new, is_forced = force.
C5_TransitionStoresRecord ==
    /\ (last.op = "transition" /\ ~last.raised /\ last.ret.ok)
          => LET h == StoredHistory(conn, last.object_tag, last.def_tag)
             IN /\ h # <<>>
                /\ h[Len(h)].state_old = last.ret.state_old
                /\ h[Len(h)].state_current = last.state_new
                /\ h[Len(h)].is_forced = last.force
                /\ last.ret = Result(TRUE, NoReason, last.ret.state_old, last.state_new)
    /\ (/\ last.op = "transition" /\ last.alone
        /\ can_transition(config, pre, last.object_tag, last.state_new, last.def_tag, last.force).ok)
        => LET o == last.object_tag
               d == last.def_tag
               before == StoredState(pre, o, d)
               h == StoredHistory(conn, o, d)
           IN /\ ~last.raised
              /\ last.ret = Result(TRUE, NoReason, before, last.state_new)
              /\ Len(h) = Len(StoredHistory(pre, o, d)) + 1
              /\ SubSeq(h, 1, Len(h) - 1) = StoredHistory(pre, o, d)
              /\ h[Len(h)].state_old = before
              /\ h[Len(h)].state_current = last.state_new
              /\ h[Len(h)].is_forced = last.force
              /\ StoredRecord(conn, o, d) = h[Len(h)]
              /\ SameElsewhere(pre, conn, o, d)
              /\ get_current_state_info(conn, o, d).state_current = last.state_new

\* An object in state s is forced into a node t # s that no edge from s leads to.
C5_Witness ==
    /\ last.op = "transition" /\ last.alone /\ ~last.raised /\ last.ret.ok /\ last.force
    /\ StoredState(pre, last.object_tag, last.def_tag) \in StateNames \ {last.state_new}
    /\ ~EdgeOf(last.def_tag, StoredState(pre, last.object_tag, last.def_tag), last.state_new)
    /\ StoredState(conn, last.object_tag, last.def_tag) = last.state_new

\* No call that makes transitions on the pair is under way.
NoCallOn(object_tag, def_tag) ==
    \A w \in InCall(threads) : Key(object_tag, def_tag) \notin CallPairs(threads.w[w].call)

\* A caller has sent the hset of the current-state record of the pair and
\* not yet the hset of its history.
BetweenWrites(object_tag, def_tag) ==
    \E w \in InCall(threads) :
        /\ threads.w[w].call.t.pc \in {"get_history", "hset_history"}
        /\ threads.w[w].call.t.item.object_tag = object_tag
        /\ threads.w[w].call.t.item.def_tag = def_tag

\* The transitions of the pair, the recorded ones and the one under way,
\* were made one at a time.
OneAtATime(object_tag, def_tag) ==
    /\ \A i \in 1..Len(DoneOf(done, object_tag, def_tag)) :
           DoneOf(done, object_tag, def_tag)[i].apart
    /\ \A w \in InCall(threads) :
           Key(object_tag, def_tag) \in CallPairs(threads.w[w].call) => threads.w[w].apart

\* C6: after N successful transitions of one (object_tag, def_tag), made
\* one at a time, get_history returns N records, the i-th the one the i-th
\* transition wrote, and get_current_state_info is the last of them (none
\* when N = 0).
C6_HistoryAppendLaw ==
    \A o \in {Order1, Order2} :
        LET h == get_history(conn, o, OrdersTag)
            calls == DoneOf(done, o, OrdersTag)
        IN (NoCallOn(o, OrdersTag) /\ OneAtATime(o, OrdersTag)) =>
           /\ Len(h) = Len(calls)
           /\ \A i \in 1..Len(h) :
                 /\ h[i].state_current = calls[i].state_new
                 /\ h[i].state_old = calls[i].state_old
                 /\ h[i].is_forced = calls[i].force
                 /\ h[i].user_ctx = calls[i].user_ctx
           /\ Len(h) > 0 => get_current_state_info(conn, o, OrdersTag) = h[Len(h)]
           /\ Len(h) = 0 => get_current_state_info(conn, o, OrdersTag) = NoData

\* MaxHist transitions were made on one object, the first and the last into different states.
C6_Witness ==
    \E o \in {Order1, Order2} :
        LET h == get_history(conn, o, OrdersTag)
        IN /\ NoCallOn(o, OrdersTag) /\ OneAtATime(o, OrdersTag)
           /\ Len(DoneOf(done, o, OrdersTag)) = MaxHist
           /\ Len(h) = MaxHist /\ Len(h) >= 2
           /\ h[1].state_current # h[Len(h)].state_current
           /\ get_current_state_info(conn, o, OrdersTag) = h[Len(h)]

\* C7: a transition that is refused writes nothing, whether it raises or
\* returns the failure tuple.
C7_RejectedWritesNothing ==
    (last.op = "transition" /\ (last.raised \/ ~last.ret.ok)) => conn = pre

\* A refused transition raised while both objects had a stored state.
C7_Witness ==
    /\ last.op = "transition" /\ last.raised /\ conn = pre
    /\ StoredState(conn, Order1, OrdersTag) # None
    /\ StoredState(conn, Order2, OrdersTag) # None

\* C8: a refused transition raises TransitionError with can_transition's
\* reason when raise_on_error=true; when raise_on_error=false it does not
\* raise and returns the tuple can_transition computed.
C8_RaiseOrReturn ==
    LET can == can_transition(config, pre, last.object_tag, last.state_new, last.def_tag,
                              last.force)
    IN (last.op = "transition" /\ ~can.ok)
          => /\ last.raise_on_error => (last.raised /\ last.error = can.reason)
             /\ ~last.raise_on_error
                   => (~last.raised /\ last.ret = can /\ ~last.ret.ok
                       /\ last.ret.state_new = last.state_new)

\* With raise_on_error=false a transition from a stored state was refused for want of an edge.
C8_Witness ==
    /\ last.op = "transition" /\ ~last.raise_on_error /\ ~last.raised /\ ~last.ret.ok
    /\ last.ret.state_old # None
    /\ last.ret.reason.kind = "No transition found"

-----------------------------------------------------------------------------
(* Claims on mass_transition, under SpecMass *)

\* The store after the record of an allowed item was written on c.
Committed(c, item) ==
    LET o == item.object_tag
        d == item.def_tag
        rec == [state_old |-> StoredState(c, o, d), state_current |-> item.state_new,
                object_tag |-> o, def_tag |-> d, server_ctx |-> item.server_ctx,
                user_ctx |-> item.user_ctx, is_forced |-> item.force]
        old == IF HistoryKey(o, d) \in DOMAIN c THEN c[HistoryKey(o, d)].json ELSE <<>>
    IN [x \in (DOMAIN c) \cup {CurrentKey(o, d), HistoryKey(o, d)} |->
           IF x = CurrentKey(o, d) THEN [json |-> rec]
           ELSE IF x = HistoryKey(o, d) THEN [json |-> Append(old, [json |-> rec])]
           ELSE c[x]]

\* Items applied in list order up to the first one the definition does not
\* allow: [conn, failed], failed the index of that item from position i on, 0 if none.
RECURSIVE InOrder(_, _, _)
InOrder(c, items, i) ==
    IF i > Len(items) THEN [conn |-> c, failed |-> 0]
    ELSE IF ~Allowed(items[i].def_tag, StoredState(c, items[i].object_tag, items[i].def_tag),
                     items[i].state_new, items[i].force)
    THEN [conn |-> c, failed |-> i]
    ELSE InOrder(Committed(c, items[i]), items, i + 1)

\* C9: mass_transition, called while no other call is under way, applies
\* its items in list order; when item k is the first that fails validation,
\* items 1..k-1 are committed and stay so, the TransitionError of item k
\* reaches the caller and no later item is attempted.
C9_MassInOrderNoRollback ==
    (last.op = "mass_transition" /\ last.alone)
        => LET e == InOrder(pre, last.items, 1)
           IN /\ conn = e.conn
              /\ e.failed = 0 => (~last.raised /\ last.attempted = Len(last.items))
              /\ e.failed > 0 => (/\ last.raised
                                  /\ last.attempted = e.failed
                                  /\ last.error.kind # "")

\* Of three items the first was committed, the second refused, and the
\* third, which the definition allows after the first, was not applied.
C9_Witness ==
    /\ last.op = "mass_transition" /\ last.alone /\ last.raised
    /\ Len(last.items) = 3 /\ last.attempted = 2
    /\ Recorded(conn) = Recorded(pre) + 1
    /\ Allowed(last.items[3].def_tag,
               StoredState(conn, last.items[3].object_tag, last.items[3].def_tag),
               last.items[3].state_new, last.items[3].force)

-----------------------------------------------------------------------------
(* Claims on transition_to, under SpecScope *)

\* C10: when the body of an entered transition_to raises, __exit__ writes
\* nothing and lets the exception through; if no other call wrote in the
\* meantime, the store is what it was when the scope was entered.
C10_BodyRaisedNoWrite ==
    (last.op = "exit" /\ last.exc)
        => /\ conn = pre
           /\ last.propagated
           /\ ~last.raised
           /\ ~last.disturbed => last.as_at_entry

\* The scope was entered for a move the definition allows from the stored
\* state s to another state, the body raised, and the object is still in s.
C10_Witness ==
    /\ last.op = "exit" /\ last.exc /\ last.propagated /\ ~last.disturbed
    /\ StoredState(conn, last.self.object_tag, last.self.def_tag) \in StateNames
    /\ StoredState(conn, last.self.object_tag, last.self.def_tag) # last.self.state_new
    /\ Allowed(last.self.def_tag, StoredState(conn, last.self.object_tag, last.self.def_tag),
               last.self.state_new, last.self.force)
    /\ last.as_at_entry
    /\ Len(StoredHistory(conn, last.self.object_tag, last.self.def_tag)) >= 1

\* C11: when the body of an entered transition_to ends without raising and
\* no other call wrote since the entry, __exit__ commits: it does not
\* raise, the stored state is state_new, the history is the history at
\* entry with one record appended, that record is the current-state record
\* and its user_ctx is the context as the body left it.
C11_ScopeCommits ==
    (last.op = "exit" /\ ~last.exc /\ ~last.disturbed)
        => LET o == last.self.object_tag
               d == last.self.def_tag
               h == StoredHistory(conn, o, d)
           IN /\ ~last.raised
              /\ StoredState(conn, o, d) = last.self.state_new
              /\ Len(h) = Len(StoredHistory(pre, o, d)) + 1
              /\ SubSeq(h, 1, Len(h) - 1) = StoredHistory(pre, o, d)
              /\ StoredRecord(conn, o, d) = h[Len(h)]
              /\ h[Len(h)].state_old = StoredState(pre, o, d)
              /\ h[Len(h)].user_ctx = last.self.ctx
              /\ SameElsewhere(pre, conn, o, d)

\* The body added an entry to its context and ended; the object, entered
\* for a root of the definition, has its first record, with the entry in it.
C11_Witness ==
    /\ last.op = "exit" /\ ~last.exc /\ ~last.disturbed /\ ~last.raised
    /\ "note" \in last.self.ctx.dict
    /\ ~last.self.force
    /\ last.self.state_new \in RootsOf(last.self.def_tag)
    /\ StoredState(pre, last.self.object_tag, last.self.def_tag) = None
    /\ StoredState(conn, last.self.object_tag, last.self.def_tag) = last.self.state_new
    /\ "note" \in StoredRecord(conn, last.self.object_tag, last.self.def_tag).user_ctx.dict

-----------------------------------------------------------------------------
(* Claims on the entry of transition_to, under SpecTwo *)

\* The definitions whose ConfigItem lists the object type.
ListedBy(object_type) ==
    {d \in DOMAIN config : object_type \in Range(config[d].objects)}

\* C12, as stated: entering a transition_to fails with TransitionError when
\* no definition lists the object type, when more than one does, and when
\* can_transition refuses state_new under the definition that lists it;
\* whenever the entry fails the body does not run and nothing is written.
C12_EntryFailsWithTransitionError ==
    last.op = "enter"
        => LET self == last.self
               L == ListedBy(self.object_type)
           IN /\ Cardinality(L) # 1 => last.raised = "TransitionError"
              /\ (/\ Cardinality(L) = 1
                  /\ ~Allowed(CHOOSE d \in L : TRUE,
                              StoredState(pre, self.object_tag, CHOOSE d \in L : TRUE),
                              self.state_new, self.force))
                     => last.raised = "TransitionError"
              /\ last.raised # "" => (scope.pc = "none" /\ conn = pre)

\* C12, as the code has it: a transition_to that finds its definition
\* through the object type (no def_name given) fails at entry with
\* TransitionError when no definition lists the type, when more than one
\* does, and when the one that does refuses state_new for the object; one
\* that names its definition fails with KeyError instead; whenever the
\* entry fails the body does not run and nothing is written.
C12_EntryFails ==
    last.op = "enter"
        => LET self == last.self
               L == ListedBy(self.object_type)
           IN /\ (self.def_name = None /\ Cardinality(L) # 1)
                     => last.raised = "TransitionError"
              /\ (/\ self.def_name = None /\ Cardinality(L) = 1
                  /\ ~Allowed(CHOOSE d \in L : TRUE,
                              StoredState(pre, self.object_tag, CHOOSE d \in L : TRUE),
                              self.state_new, self.force))
                     => last.raised = "TransitionError"
              /\ self.def_name # None => last.raised = "KeyError"
              /\ last.raised # "" => (scope.pc = "none" /\ conn = pre)

\* An entry by a type that both definitions list failed, for a state that
\* either definition would have let the object enter.
C12_Witness ==
    /\ last.op = "enter" /\ last.raised = "TransitionError"
    /\ last.self.def_name = None
    /\ Cardinality(ListedBy(last.self.object_type)) = 2
    /\ \A d \in ListedBy(last.self.object_type) :
           Allowed(d, StoredState(pre, last.self.object_tag, d), last.self.state_new, FALSE)
    /\ last.error.kind = "Ambiguous input"
    /\ scope.pc = "none" /\ conn = pre

\* The tag of the definition a transition_to names.
NamedTag(self) == get_tag(self.def_name, self.def_version)

\* C13: a transition_to created with the name and version of a definition
\* that lets the object enter state_new is entered, with def_tag the tag of
\* that definition, and its exit commits under that tag.
C13_NamedScopeEnters ==
    /\ (/\ last.op = "enter" /\ last.self.def_name # None
        /\ NamedTag(last.self) \in DOMAIN config
        /\ Allowed(NamedTag(last.self),
                   StoredState(pre, last.self.object_tag, NamedTag(last.self)),
                   last.self.state_new, last.self.force))
           => (/\ last.raised = ""
               /\ last.self.def_tag = NamedTag(last.self)
               /\ scope.pc = "body")
    /\ (last.op = "exit" /\ ~last.exc /\ ~last.raised /\ last.self.def_name # None)
           => StoredState(conn, last.self.object_tag, NamedTag(last.self)) = last.self.state_new

\* What the entry does with a definition given by name: def_tag is still
\* the '' of __init__, which is no key of config, and the entry ends in a
\* KeyError; nothing is written.
C13_NamedScopeKeyError ==
    (last.op = "enter" /\ last.self.def_name # None)
        => (/\ last.raised = "KeyError"
            /\ last.self.def_tag = EmptyTag
            /\ scope.pc = "none"
            /\ conn = pre)

\* A transition_to naming [Orders] was entered for a fresh object and a
\* root of [Orders], and the entry raised.
C13_Witness ==
    /\ last.op = "enter" /\ last.self.def_name = "Orders"
    /\ last.self.def_version = DEFAULT_GRAPH_VERSION
    /\ NamedTag(last.self) = OrdersTag
    /\ last.self.object_type = "order"
    /\ StoredState(pre, last.self.object_tag, OrdersTag) = None
    /\ last.self.state_new \in RootsOf(OrdersTag)
    /\ last.raised = "KeyError"

-----------------------------------------------------------------------------
(* Claims on concurrent callers, under SpecRace *)

\* No caller is in the middle of a transition on (object_tag, def_tag).
Quiet(object_tag, def_tag) == Busy(threads, "nobody", object_tag, def_tag) = {}

\* The record a successful call of the log leaves in the store.
RecordOf(object_tag, def_tag, call) ==
    [state_old |-> call.state_old, state_current |-> call.state_new, object_tag |-> object_tag,
     def_tag |-> def_tag, server_ctx |-> None, user_ctx |-> call.user_ctx,
     is_forced |-> call.force]

\* C14: two transitions of one pair that overlap can both return success
\* and leave a history with only one of their two records, whose last
\* record is not the current-state record. Such a loss needs the overlap:
\* on a pair whose transitions never overlapped, once no call is under way,
\* the history has one record per successful call and ends with the
\* current-state record.
C14_LossOnlyWhenOverlapped ==
    \A p \in RacePairs :
        (/\ Quiet(p[1], p[2])
         /\ \/ Len(StoredHistory(conn, p[1], p[2])) # Len(DoneOf(done, p[1], p[2]))
            \/ /\ StoredHistory(conn, p[1], p[2]) # <<>>
               /\ StoredRecord(conn, p[1], p[2])
                     # StoredHistory(conn, p[1], p[2])[Len(StoredHistory(conn, p[1], p[2]))])
            => p \in threads.raced

\* Both callers have returned from a successful transition of the same
\* pair; the history holds one record, that of one of the two calls, and
\* the current-state record is that of the other.
C14_Witness ==
    \E p \in RacePairs :
        LET calls == DoneOf(done, p[1], p[2])
            h == StoredHistory(conn, p[1], p[2])
        IN /\ \A w \in Writers : threads.w[w].pc = "idle"
           /\ Len(calls) = 2
           /\ Len(h) = 1
           /\ h[1] \in {RecordOf(p[1], p[2], calls[1]), RecordOf(p[1], p[2], calls[2])}
           /\ StoredRecord(conn, p[1], p[2])
                 \in {RecordOf(p[1], p[2], calls[1]), RecordOf(p[1], p[2], calls[2])}
           /\ StoredRecord(conn, p[1], p[2]) # h[1]
           /\ p \in threads.raced

\* The successful calls of a pair applied one after the other to store c,
\* from the i-th on, each checked against the definition: [ok, conn].
RECURSIVE Alone(_, _, _, _, _)
Alone(c, object_tag, def_tag, calls, i) ==
    IF i > Len(calls) THEN [ok |-> TRUE, conn |-> c]
    ELSE LET item == [object_tag |-> object_tag, def_tag |-> def_tag,
                      state_new |-> calls[i].state_new, server_ctx |-> None,
                      user_ctx |-> calls[i].user_ctx, force |-> calls[i].force]
         IN IF /\ Allowed(def_tag, StoredState(c, object_tag, def_tag), calls[i].state_new,
                          calls[i].force)
               /\ calls[i].state_old = StoredState(c, object_tag, def_tag)
            THEN Alone(Committed(c, item), object_tag, def_tag, calls, i + 1)
            ELSE [ok |-> FALSE, conn |-> c]

\* C15: on a pair whose own transitions never overlapped, whatever the
\* callers do to other pairs in between, the successful calls are those
\* the definition allows one after the other, the history is what these
\* calls alone leave in an empty store, and so is the current-state record
\* once no call is under way on the pair; the store has no other keys than
\* those of the pairs the callers worked on.
C15_OtherPairsUntouched ==
    /\ \A p \in RacePairs :
          p \notin threads.raced
             => LET alone == Alone([x \in {} |-> NoData], p[1], p[2], DoneOf(done, p[1], p[2]), 1)
                IN /\ alone.ok
                   /\ StoredHistory(conn, p[1], p[2]) = StoredHistory(alone.conn, p[1], p[2])
                   /\ Quiet(p[1], p[2])
                         => StoredRecord(conn, p[1], p[2]) = StoredRecord(alone.conn, p[1], p[2])
    /\ DOMAIN conn \subseteq UNION {{CurrentKey(p[1], p[2]), HistoryKey(p[1], p[2])} : p \in RacePairs}

\* A caller has returned from a transition of an object under [Orders]
\* while the other was in the middle of one of the same object under
\* [Priority], its current-state record written and its history not yet.
C15_Witness ==
    /\ last.op = "hset_history" /\ last.returned
    /\ last.object_tag = Order1 /\ last.def_tag = OrdersTag
    /\ last.beside = {Key(Order1, PriorityTag)}
    /\ threads.raced = {}
    /\ StoredRecord(conn, Order1, PriorityTag) # NoData
    /\ StoredHistory(conn, Order1, PriorityTag) = <<>>
    /\ Len(StoredHistory(conn, Order1, OrdersTag)) = 1
    /\ StoredRecord(conn, Order1, OrdersTag).state_current = "new"

\* The reader has read the current-state record and then the history of a
\* pair with no write to the pair in between, while at most one transition
\* at a time ever worked on the pair.
ReadWhole ==
    last.op = "read" /\ ~last.torn /\ ~last.raced

\* C16: set_current_state_info shows its two writes as one: what a reader
\* reads of a pair beside a single writer is either no record and an empty
\* history, or a current-state record that is the last record of the history.
C16_WritesShownAsOne ==
    ReadWhole
        => \/ last.current = NoData /\ last.history = <<>>
           \/ /\ last.current # NoData /\ last.history # <<>>
              /\ last.history[Len(last.history)] = last.current

\* What the reader can see instead: a current-state record that the
\* history does not end with, while the writer is between its two writes.
C16_CurrentLeadsHistory ==
    (/\ ReadWhole
     /\ ~(last.current = NoData /\ last.history = <<>>)
     /\ (last.history = <<>> \/ last.history[Len(last.history)] # last.current))
        => (last.current # NoData /\ last.writers = 1)

\* The reader saw the second current-state record of a pair whose history
\* still ended with the first.
C16_Witness ==
    /\ ReadWhole /\ last.writers = 1
    /\ last.current # NoData
    /\ Len(last.history) = 1
    /\ last.history[1] # last.current
    /\ last.current.state_old = last.history[1].state_current

\* C17, as stated: beside a single writer, a reader that calls
\* get_current_state_info and then get_history for a pair never gets a
\* history whose last record is newer than the current-state record it
\* got: when the history has records, there is a current-state record and
\* it is not one of the records in front of the last one.
C17_ReaderNeverSeesHistoryAhead ==
    (last.op = "read" /\ ~last.raced /\ last.history # <<>>)
        => /\ last.current # NoData
           /\ \A i \in 1..(Len(last.history) - 1) : last.history[i] # last.current

\* C17, as the code has it: beside a single writer the store never holds a
\* history that is ahead of the current-state record (whenever the history
\* of a pair has records, a current-state record exists and it is not one
\* of the records in front of the last one), after every command; and a
\* reader gets no history ahead of its current-state record when no write
\* to the pair fell between its two reads.
C17_HistoryNeverAhead ==
    /\ \A p \in RacePairs :
          (p \notin threads.raced /\ StoredHistory(conn, p[1], p[2]) # <<>>)
             => LET h == StoredHistory(conn, p[1], p[2])
                IN /\ StoredRecord(conn, p[1], p[2]) # NoData
                   /\ \A i \in 1..(Len(h) - 1) : h[i] # StoredRecord(conn, p[1], p[2])
    /\ (ReadWhole /\ last.history # <<>>)
          => /\ last.current # NoData
             /\ \A i \in 1..(Len(last.history) - 1) : last.history[i] # last.current

\* The reader read a pair while its second transition was between the
\* read of the history and the write of the extended history: the
\* current-state record is the new one, the history still has one record.
C17_Witness ==
    /\ ReadWhole /\ last.writers = 1
    /\ \E w \in Writers :
          /\ threads.w[w].pc = "hset_history"
          /\ threads.w[w].object_tag = last.object_tag
          /\ threads.w[w].def_tag = last.def_tag
          /\ loads(threads.w[w].state_info) = StoredRecord(conn, last.object_tag, last.def_tag)
    /\ Len(last.history) = 1
    /\ last.current.state_old = last.history[1].state_current
    /\ last.current.user_ctx # last.history[1].user_ctx

-----------------------------------------------------------------------------
(* Further claims on the stored records, under SpecOps *)

\* C18: for every pair, as long as no transition of it has been recorded
\* get_history returns the empty list, not None, and
\* get_current_state_info returns None; from the first recorded transition
\* on, the history is not empty and there is a current-state record. Read
\* of the store at any moment: either it holds neither for the pair or it
\* holds both.
C18_NeitherOrBoth ==
    \A o \in {Order1, Order2} :
        \/ /\ get_history(conn, o, OrdersTag) = <<>>
           /\ get_current_state_info(conn, o, OrdersTag) = NoData
        \/ /\ get_history(conn, o, OrdersTag) # <<>>
           /\ get_current_state_info(conn, o, OrdersTag) # NoData

\* C18, as the code has it: as long as no transition of the pair has run
\* to its end get_history returns the empty list, not None; from the first
\* one that has, the history is not empty and there is a current-state
\* record; without a current-state record the history is empty; and a
\* current-state record with an empty history is there only while a caller
\* is between the two writes of set_current_state_info.
C18_EmptyUntilFirstTransition ==
    \A o \in {Order1, Order2} :
        /\ DoneOf(done, o, OrdersTag) = <<>> => get_history(conn, o, OrdersTag) = <<>>
        /\ DoneOf(done, o, OrdersTag) # <<>>
              => /\ get_history(conn, o, OrdersTag) # <<>>
                 /\ get_current_state_info(conn, o, OrdersTag) # NoData
        /\ get_current_state_info(conn, o, OrdersTag) = NoData
              => get_history(conn, o, OrdersTag) = <<>>
        /\ (/\ get_current_state_info(conn, o, OrdersTag) # NoData
            /\ get_history(conn, o, OrdersTag) = <<>>)
              => BetweenWrites(o, OrdersTag)

\* One object has gone through transitions, further calls on it were
\* refused, and the other object still has nothing recorded.
C18_Witness ==
    /\ Len(DoneOf(done, Order1, OrdersTag)) = MaxHist
    /\ Len(get_history(conn, Order1, OrdersTag)) = MaxHist
    /\ get_current_state_info(conn, Order1, OrdersTag) # NoData
    /\ last.op = "transition" /\ last.object_tag = Order2 /\ last.raised
    /\ DoneOf(done, Order2, OrdersTag) = <<>>
    /\ get_history(conn, Order2, OrdersTag) = <<>>
    /\ get_current_state_info(conn, Order2, OrdersTag) = NoData

-----------------------------------------------------------------------------
(* Further claims on can_transition, under Spec *)

\* C19: force=true only adds: in every store, for every target state,
\* what can_transition allows with force=false it allows with force=true,
\* and a force_stop state is allowed with force=true as well; the call
\* made last agrees with this.
C19_ForceOnlyAdds ==
    /\ \A state_new \in Names :
          /\ can_transition(config, conn, Order1, state_new, OrdersTag, FALSE).ok
                => can_transition(config, conn, Order1, state_new, OrdersTag, TRUE).ok
          /\ state_new \in ForceStopOf(OrdersTag)
                => can_transition(config, conn, Order1, state_new, OrdersTag, TRUE).ok
    /\ (last.op = "can_transition" /\ ~last.force /\ last.ret.ok)
          => can_transition(config, pre, last.object_tag, last.state_new, last.def_tag, TRUE).ok

\* An object with a stored state was asked, with force=true, for a
\* force_stop state that is no node of the graph, and was allowed: force
\* itself does not apply, the force_stop rule does.
C19_Witness ==
    /\ last.op = "can_transition" /\ last.force /\ last.ret.ok
    /\ StoredState(conn, last.object_tag, last.def_tag) \in StateNames
    /\ last.state_new \in ForceStopOf(last.def_tag)
    /\ last.state_new \notin NodesOf(last.def_tag)
    /\ can_transition(config, conn, last.object_tag, last.state_new, last.def_tag, FALSE).ok
    /\ \E s \in Names :
          /\ ~can_transition(config, conn, last.object_tag, s, last.def_tag, FALSE).ok
          /\ can_transition(config, conn, last.object_tag, s, last.def_tag, TRUE).ok

-----------------------------------------------------------------------------
(* Claims on get_def_tag, under SpecTwo *)

\* C20: get_def_tag returns the tag of the one definition whose ConfigItem
\* lists the object type; it fails with the 'Ambiguous input'
\* TransitionError exactly when more than one definition lists the type;
\* and object_id, state_new, def_name and def_version change neither the
\* tag returned nor the exception raised.
C20_OneDefinitionOrAmbiguous ==
    last.op = "get_def_tag"
        => LET L == ListedBy(last.object_type)
               bare == get_def_tag(object_type_to_def, last.object_type, None, None, None, None)
           IN /\ Cardinality(L) = 1 => (last.raised = "" /\ last.ret \in L)
              /\ (last.raised = "TransitionError" /\ last.error.kind = "Ambiguous input")
                    <=> Cardinality(L) > 1
              /\ last.raised = bare.raised
              /\ last.ret = bare.def_tag

\* get_def_tag was asked for a type that both definitions list and was
\* told the name and version of one of them: it fails all the same.
C20_Witness ==
    /\ last.op = "get_def_tag"
    /\ ListedBy(last.object_type) = {OrdersTag, PriorityTag}
    /\ last.def_name = "Orders" /\ last.def_version = DEFAULT_GRAPH_VERSION
    /\ last.raised = "TransitionError" /\ last.error.kind = "Ambiguous input"

-----------------------------------------------------------------------------
(* Claims on set_up, under SpecTwo *)

\* C21: after the construction of the StateMachine no object type is
\* associated with more than one definition tag.
C21_OneDefinitionPerType ==
    \A t \in DOMAIN object_type_to_def : Len(object_type_to_def[t]) <= 1

\* What set_up leaves: the types some definition lists are the keys of
\* object_type_to_def, and each is mapped to the tags of all the definitions
\* that list it, each tag once; nothing is refused.
C21_SetUpCollectsEveryTag ==
    /\ DOMAIN object_type_to_def = UNION {Range(config[d].objects) : d \in DOMAIN config}
    /\ \A t \in DOMAIN object_type_to_def :
          /\ Range(object_type_to_def[t]) = ListedBy(t)
          /\ Len(object_type_to_def[t]) = Cardinality(ListedBy(t))

\* The StateMachine was constructed from two definitions that both list
\* priority.order, the type is mapped to both tags, and a transition of an
\* object of the type under one of them was carried out.
C21_Witness ==
    /\ "priority.order" \in DOMAIN object_type_to_def
    /\ Range(object_type_to_def["priority.order"]) = {OrdersTag, PriorityTag}
    /\ Len(object_type_to_def["priority.order"]) = 2
    /\ last.op = "transition" /\ ~last.raised
    /\ last.object_tag = get_object_tag("priority.order", "1")
    /\ StoredState(conn, last.object_tag, PriorityTag) = "new"

-----------------------------------------------------------------------------
(* A Definition built call by call: add_node, add_edge, has_edge, roots *)

\* definition.add_node(name): the node's data is not kept.
AddNodeCall(name) ==
    /\ graph.pc = "def"
    /\ graph.calls < MaxDefCalls
    /\ graph' = [graph EXCEPT !.def_ = add_node(graph.def_, name),
                              !.before = graph.def_,
                              !.calls = @ + 1]
    /\ last' = [op |-> "add_node", name |-> name]
    /\ UNCHANGED <<config, object_type_to_def, conn, scope, pre, done, threads, retry>>

\* definition.add_edge(from_, to)
AddEdgeCall(from_, to) ==
    /\ graph.pc = "def"
    /\ graph.calls < MaxDefCalls
    /\ graph' = [graph EXCEPT !.def_ = add_edge(graph.def_, from_, to),
                              !.before = graph.def_,
                              !.calls = @ + 1]
    /\ last' = [op |-> "add_edge", from_ |-> from_, to |-> to,
                ret |-> add_edge_result(graph.def_, from_, to)]
    /\ UNCHANGED <<config, object_type_to_def, conn, scope, pre, done, threads, retry>>

\* definition.has_edge(from_, to)
HasEdgeCall(from_, to) ==
    /\ graph.pc = "def"
    /\ graph' = [graph EXCEPT !.before = graph.def_]
    /\ last' = [op |-> "has_edge", from_ |-> from_, to |-> to,
                ret |-> has_edge(graph.def_, from_, to)]
    /\ UNCHANGED <<config, object_type_to_def, conn, scope, pre, done, threads, retry>>

\* definition.roots
RootsCall ==
    /\ graph.pc = "def"
    /\ graph' = [graph EXCEPT !.def_ = roots_read(graph.def_),
                              !.before = graph.def_]
    /\ last' = [op |-> "roots", ret |-> roots(graph.def_)]
    /\ UNCHANGED <<config, object_type_to_def, conn, scope, pre, done, threads, retry>>

\* Definition('Orders'), nothing added yet, and no StateMachine around it.
InitDef ==
    /\ config = [t \in {} |-> ConfigItem]
    /\ object_type_to_def = [t \in {} |-> <<>>]
    /\ conn = [x \in {} |-> NoData]
    /\ scope = NoScope
    /\ last = [op |-> "init"]
    /\ pre = [x \in {} |-> NoData]
    /\ done = [k \in {} |-> <<>>]
    /\ threads = NoThreads
    /\ retry = NoRetry
    /\ graph = [pc |-> "def", def_ |-> Definition("Orders", DEFAULT_GRAPH_VERSION),
                before |-> Definition("Orders", DEFAULT_GRAPH_VERSION), calls |-> 0]

AddNodeStep == \E name \in StateNames : AddNodeCall(name)

AddEdgeStep == \E from_ \in StateNames, to \in StateNames : AddEdgeCall(from_, to)

HasEdgeStep == \E from_ \in StateNames, to \in StateNames : HasEdgeCall(from_, to)

RootsStep == RootsCall

NextDef == AddNodeStep \/ AddEdgeStep \/ HasEdgeStep \/ RootsStep

SpecDef == InitDef /\ [][NextDef]_vars

\* The vocabulary of the claims on a Definition.
Targets(def_) == UNION {def_.nodes[n] : n \in DOMAIN def_.nodes}

\* self._roots holds nothing a later read of roots would return.
Fresh(def_) == ~def_.roots_cached \/ def_.roots_cache = {}

\* The call made last was an add_edge that returned True.
AddedEdge == last.op = "add_edge" /\ Truthy(last.ret)

-----------------------------------------------------------------------------
(* Claims on the Definition, under SpecDef *)

\* C22: after any sequence of add_node, add_edge and reads of roots, a
\* node is in roots if and only if no edge now in the graph leads to it, also
\* when roots was read before the node was added, and roots holds nodes only.
C22_RootsIffNoIncomingEdge ==
    graph.pc = "def" =>
        /\ roots(graph.def_) \subseteq DOMAIN graph.def_.nodes
        /\ \A n \in DOMAIN graph.def_.nodes :
              n \in roots(graph.def_) <=> n \notin Targets(graph.def_)

\* What holds of roots after any sequence of calls: it holds nodes only, and
\* as long as no read left a non-empty list in self._roots no edge leads to
\* any of them.
C22_RootsAreNodes ==
    graph.pc = "def" =>
        /\ roots(graph.def_) \subseteq DOMAIN graph.def_.nodes
        /\ Fresh(graph.def_) => roots(graph.def_) \cap Targets(graph.def_) = {}

\* roots was read and gave a non-empty list, then a new node was added that
\* no edge leads to, and roots does not hold it.
C22_Witness ==
    /\ graph.pc = "def"
    /\ last.op = "add_node"
    /\ ~Fresh(graph.before)
    /\ last.name \notin DOMAIN graph.before.nodes
    /\ last.name \notin Targets(graph.def_)
    /\ last.name \notin roots(graph.def_)

\* C23: an add_edge(a, b) that succeeded leaves b out of roots, and a in
\* roots if a was a root before.
C23_AddEdgeUpdatesRoots ==
    AddedEdge =>
        /\ last.to \notin roots(graph.def_)
        /\ last.from_ \in roots(graph.before) => last.from_ \in roots(graph.def_)

\* What add_edge(a, b) does to roots as long as no read left a non-empty
\* list in self._roots: b is no root afterwards, and unless a is b, a is a
\* root afterwards exactly if it was one before.
C23_AddEdgeUpdatesUnreadRoots ==
    AddedEdge /\ Fresh(graph.before) =>
        /\ last.to \notin roots(graph.def_)
        /\ last.from_ # last.to =>
              (last.from_ \in roots(graph.before) <=> last.from_ \in roots(graph.def_))

\* An edge was added from one root to another while self._roots held
\* nothing: its target is a root no more, its origin still is.
C23_Witness ==
    /\ AddedEdge
    /\ Fresh(graph.before)
    /\ last.from_ # last.to
    /\ {last.from_, last.to} \subseteq roots(graph.before)
    /\ last.from_ \in roots(graph.def_)
    /\ last.to \notin roots(graph.def_)

\* C24: add_edge(from_, to) with an endpoint that is no node returns a
\* falsy result with error_code NO_SUCH_NODE and the missing endpoint in
\* details (from_ when both are missing), and leaves the nodes, the edges of
\* every node and the roots as they were.
C24_AddEdgeFailureChangesNothing ==
    last.op = "add_edge" /\ ~({last.from_, last.to} \subseteq DOMAIN graph.before.nodes) =>
        /\ ~Truthy(last.ret)
        /\ last.ret.error_code = NO_SUCH_NODE
        /\ last.ret.details = IF last.from_ \notin DOMAIN graph.before.nodes
                              THEN last.from_ ELSE last.to
        /\ DOMAIN graph.def_.nodes = DOMAIN graph.before.nodes
        /\ \A n \in DOMAIN graph.def_.nodes : graph.def_.nodes[n] = graph.before.nodes[n]
        /\ roots(graph.def_) = roots(graph.before)
        /\ graph.def_ = graph.before

\* An edge was asked for from a node that has an edge already to a name
\* that is no node: the result names the target and the node's edges are
\* as before.
C24_Witness ==
    /\ last.op = "add_edge"
    /\ last.from_ \in DOMAIN graph.before.nodes
    /\ graph.before.nodes[last.from_] # {}
    /\ last.to \notin DOMAIN graph.before.nodes
    /\ last.ret = AddEdgeResult(FALSE, NO_SUCH_NODE, last.to)
    /\ graph.def_.nodes[last.from_] = graph.before.nodes[last.from_]

\* C25: has_edge(from_, to) validates its endpoints as add_edge does,
\* changes nothing in the definition and is true exactly when to is among
\* the edges of from_; an add_edge(a, b) does not make has_edge(b, a) true.
C25_HasEdgeIsMembership ==
    /\ last.op = "has_edge" =>
          /\ graph.def_ = graph.before
          /\ IF {last.from_, last.to} \subseteq DOMAIN graph.def_.nodes
             THEN last.ret = Plain(last.to \in graph.def_.nodes[last.from_])
             ELSE /\ ~Truthy(last.ret)
                  /\ last.ret = add_edge_result(graph.def_, last.from_, last.to)
    /\ AddedEdge /\ last.from_ # last.to =>
          (Truthy(has_edge(graph.def_, last.to, last.from_))
              <=> Truthy(has_edge(graph.before, last.to, last.from_)))

\* has_edge(a, b) was asked and is true while the graph has no edge from
\* b to a.
C25_Witness ==
    /\ last.op = "has_edge"
    /\ last.from_ # last.to
    /\ Truthy(last.ret)
    /\ last.from_ \notin graph.def_.nodes[last.to]

\* C26: add_node(name) for a name that is a node already replaces the
\* node: has_edge(name, x) is false for every x afterwards, and the edges
\* of the other nodes, those into name included, are as before.
C26_AddNodeAgainDropsOutgoing ==
    last.op = "add_node" /\ last.name \in DOMAIN graph.before.nodes =>
        /\ \A x \in StateNames : ~Truthy(has_edge(graph.def_, last.name, x))
        /\ DOMAIN graph.def_.nodes = DOMAIN graph.before.nodes
        /\ \A m \in DOMAIN graph.before.nodes \ {last.name} :
              /\ graph.def_.nodes[m] = graph.before.nodes[m]
              /\ Truthy(has_edge(graph.before, m, last.name))
                    => Truthy(has_edge(graph.def_, m, last.name))

\* A node with an edge out of it and an edge into it from another node was
\* added again: the edge into it is still there.
C26_Witness ==
    /\ last.op = "add_node"
    /\ last.name \in DOMAIN graph.before.nodes
    /\ graph.before.nodes[last.name] # {}
    /\ \E m \in DOMAIN graph.def_.nodes \ {last.name} :
          Truthy(has_edge(graph.def_, m, last.name))

-----------------------------------------------------------------------------
(* The parser on the blocks of SpecParse *)

\* What each add_edge of the second pass of _add_nodes_edges returns, in
\* the order of the calls (the parser drops these results).
RECURSIVE add_each_edge_result(_, _, _)
add_each_edge_result(def_, from_, to) ==
    IF to = <<>> THEN <<>>
    ELSE <<add_edge_result(def_, from_, Head(to))>>
         \o add_each_edge_result(add_edge(def_, from_, Head(to)), from_, Tail(to))

RECURSIVE add_edges_results(_, _)
add_edges_results(def_, items) ==
    IF items = <<>> THEN <<>>
    ELSE LET from_ == Head(items).key
             to == to_list(Head(items).value)
         IN add_each_edge_result(def_, from_, to)
            \o add_edges_results(add_each_edge(def_, from_, to), Tail(items))

\* The results of the add_edge calls parse_config_dict makes on {name: items}.
parse_config_dict_results(name, items) ==
    LET rest == del_key(del_key(del_key(items, "version"), "objects"), "force_stop")
        d1 == add_nodes_edges(ConfigItem.def_, rest, TRUE)
    IN add_edges_results(d1, rest)

\* ci = ConfigItem(); ci.parse_config_dict({name: items}), the item then
\* registered under its tag.
ParseConfigDictCall ==
    /\ graph.pc = "block"
    /\ LET item == parse_config_dict(graph.name, graph.items)
       IN config' = [t \in {item.def_.tag} |-> item]
    /\ last' = [op |-> "parse_config_dict",
                add_edge |-> parse_config_dict_results(graph.name, graph.items)]
    /\ graph' = [graph EXCEPT !.pc = "parsed"]
    /\ UNCHANGED <<object_type_to_def, conn, scope, pre, done, threads, retry>>

\* The names a to-list may hold: the states, a name that is a reserved key
\* as well, and a name with capitals.
ToNames == StateNames \cup {"version", "QA"}

\* The values of a from-state: a scalar, or a list of one or two names.
ToValues ==
    {Scalar(s) : s \in ToNames}
        \cup {List(<<"ready">>), List(<<"submitted", "ready">>), List(<<"ready", "new">>)}

\* The lines a block is made of.
BlockLines ==
    {[key |-> k, value |-> v] : k \in StateNames, v \in ToValues}
        \cup {[key |-> "version", value |-> Scalar("2")],
              [key |-> "objects", value |-> Scalar("order")],
              [key |-> "force_stop", value |-> Scalar("canceled")],
              [key |-> "force_stop", value |-> List(<<"new", "canceled">>)]}

\* The blocks: up to MaxBlockLines lines in any order, no key twice.
Blocks ==
    {b \in UNION {[1..n -> BlockLines] : n \in 1..MaxBlockLines} :
        \A i \in 1..Len(b), j \in 1..Len(b) : i # j => b[i].key # b[j].key}

\* A block under its header, not parsed yet.
InitParse ==
    \E name \in {"Orders", "Orders Old"}, items \in Blocks :
        /\ config = [t \in {} |-> ConfigItem]
        /\ object_type_to_def = [t \in {} |-> <<>>]
        /\ conn = [x \in {} |-> NoData]
        /\ scope = NoScope
        /\ last = [op |-> "init"]
        /\ pre = [x \in {} |-> NoData]
        /\ done = [k \in {} |-> <<>>]
        /\ threads = NoThreads
        /\ retry = NoRetry
        /\ graph = [pc |-> "block", name |-> name, items |-> items]

ParseConfigDictStep == ParseConfigDictCall

-----------------------------------------------------------------------------
(* StateMachine.get_diagram: the labels and edge statements of a definition *)

\* get_diagram_safe_name: name.strip().lower().replace(' ', '_'), on the
\* names of the model, of which only QA has capitals and none has spaces.
get_diagram_safe_name(name) ==
    CASE name = "QA" -> "qa"
      [] OTHER -> name

\* get_diagram_label with no state_info: '{name_safe} [label="{name}" ]'.
get_diagram_label(name) ==
    [name_safe |-> get_diagram_safe_name(name), label |-> name, options |-> ""]

\* '{} -> {};'.format(from_safe, to_safe)
EdgeStatement(from_safe, to_safe) == <<from_safe, to_safe>>

\* `if label not in labels: labels.append(label)`
append_new(labels, label) ==
    IF label \in Range(labels) THEN labels ELSE Append(labels, label)

\* get_diagram, the loop `for to in to` over the to-list of from_: the
\* regular edge, the two labels, the edge of a leaf.
diagram_to_list(config_, from_, to, acc) ==
    LET RECURSIVE each(_, _)
        each(rest, a) ==
            IF rest = <<>> THEN a
            ELSE LET to_item == Head(rest)
                     e1 == Append(a.edges, EdgeStatement(get_diagram_safe_name(from_),
                                                         get_diagram_safe_name(to_item)))
                 IN each(Tail(rest),
                         [labels |-> append_new(append_new(a.labels, get_diagram_label(from_)),
                                                get_diagram_label(to_item)),
                          edges |-> IF has_key(config_, to_item) THEN e1
                                    ELSE Append(e1, EdgeStatement(get_diagram_safe_name(to_item),
                                                                  "end"))])
    IN each(to, acc)

\* get_diagram, the loop `for from_, to in config.items()`.
RECURSIVE diagram_lines(_, _, _, _)
diagram_lines(config_, def_, items, acc) ==
    IF items = <<>> THEN acc
    ELSE LET from_ == Head(items).key
             a == diagram_to_list(config_, from_, to_list(Head(items).value), acc)
         IN diagram_lines(config_, def_, Tail(items),
                          IF from_ \in roots(def_)
                          THEN [a EXCEPT !.edges = Append(@, EdgeStatement("begin",
                                                              get_diagram_safe_name(from_)))]
                          ELSE a)

\* sorted(...) of a list of lines, kept as the lines with the number of
\* times each occurs.
SortedLines(s) == [x \in Range(s) |-> Cardinality({i \in 1..Len(s) : s[i] = x})]

\* config_item.def_config[name] once parse_config_dict has popped version,
\* objects and force_stop off it.
def_config(items) == del_key(del_key(del_key(items, "version"), "objects"), "force_stop")

\* get_diagram(def_tag) with no state_info and include_force_stop: the three
\* lists of lines substituted into DIAG_DEF_TEMPLATE (the rendering of the
\* text by blockdiag is not kept).
get_diagram(item, items) ==
    LET acc == diagram_lines(def_config(items), item.def_, def_config(items),
                             [labels |-> <<>>, edges |-> <<>>])
    IN [forced_stop |-> SortedLines([i \in 1..Len(item.force_stop) |->
                                        get_diagram_label(item.force_stop[i])]),
        labels |-> SortedLines(acc.labels),
        edges |-> SortedLines(acc.edges)]

\* sm.get_diagram(def_tag) for the definition parsed from the block; the
\* read of def_.roots in the loop fills self._roots.
GetDiagramCall ==
    /\ graph.pc = "parsed"
    /\ \E def_tag \in DOMAIN config :
          /\ last' = [op |-> "get_diagram", def_tag |-> def_tag,
                      ret |-> get_diagram(config[def_tag], graph.items)]
          /\ config' = IF def_config(graph.items) = <<>> THEN config
                       ELSE [config EXCEPT ![def_tag].def_ = roots_read(@)]
    /\ graph' = [graph EXCEPT !.pc = "drawn"]
    /\ UNCHANGED <<object_type_to_def, conn, scope, pre, done, threads, retry>>

GetDiagramStep == GetDiagramCall

NextParse == ParseConfigDictStep \/ GetDiagramStep

SpecParse == InitParse /\ [][NextParse]_vars

\* The vocabulary of the claims on the parser.
ReservedKeys == {"version", "objects", "force_stop"}

\* The block was parsed.
Parsed == graph.pc \in {"parsed", "drawn"}

\* The item the block was parsed into.
ParsedItem == config[CHOOSE t \in DOMAIN config : TRUE]

\* The lines of the block that declare transitions.
Declared == {i \in 1..Len(graph.items) : graph.items[i].key \notin ReservedKeys}

FromStates == {graph.items[i].key : i \in Declared}

\* The names a value holds, a scalar being a list of one.
NamesIn(value) == IF value.is_list THEN Range(value.v) ELSE {value.v}

ToStatesOf(from_) ==
    UNION {NamesIn(graph.items[i].value) : i \in {j \in Declared : graph.items[j].key = from_}}

ToStates == UNION {ToStatesOf(from_) : from_ \in FromStates}

-----------------------------------------------------------------------------
(* Claims on the parser, under SpecParse *)

\* C27: the definition parsed from a block has as nodes exactly the
\* from-states and to-states of the block, each from-state has as edges
\* exactly the names of its to-list, and no add_edge fails while parsing,
\* in whatever order the lines stand.
C27_ParsedGraphIsDeclaredGraph ==
    Parsed =>
        /\ DOMAIN ParsedItem.def_.nodes = FromStates \cup ToStates
        /\ \A from_ \in FromStates : ParsedItem.def_.nodes[from_] = ToStatesOf(from_)
        /\ \A n \in ToStates \ FromStates : ParsedItem.def_.nodes[n] = {}
        /\ last.op = "parse_config_dict" =>
              \A i \in 1..Len(last.add_edge) : Truthy(last.add_edge[i])

\* A block was parsed in which a to-state is declared as a from-state only
\* on a later line, and the edge to it is there.
C27_Witness ==
    /\ Parsed
    /\ last.op = "parse_config_dict"
    /\ \E i \in Declared, j \in Declared :
          /\ i < j
          /\ graph.items[j].key \in NamesIn(graph.items[i].value)
          /\ graph.items[j].key # graph.items[i].key
          /\ graph.items[j].key \in ParsedItem.def_.nodes[graph.items[i].key]
    /\ Len(last.add_edge) >= 2

\* C28: after parsing, version, objects and force_stop are no nodes of
\* the definition, and a state that is named in the force_stop list only is
\* neither a node nor a root.
C28_ReservedKeysNeverNodes ==
    Parsed =>
        /\ ReservedKeys \cap DOMAIN ParsedItem.def_.nodes = {}
        /\ \A s \in Range(ParsedItem.force_stop) \ (FromStates \cup ToStates) :
              /\ s \notin DOMAIN ParsedItem.def_.nodes
              /\ s \notin roots(ParsedItem.def_)

\* After parsing, version, objects and force_stop are nodes only where a
\* to-list names them, the lines under these keys add no node, and a state
\* that is named in the force_stop list only is neither a node nor a root.
C28_ReservedLinesAddNoNodes ==
    Parsed =>
        /\ ReservedKeys \cap DOMAIN ParsedItem.def_.nodes \subseteq ToStates
        /\ DOMAIN ParsedItem.def_.nodes \subseteq FromStates \cup ToStates
        /\ \A s \in Range(ParsedItem.force_stop) \ (FromStates \cup ToStates) :
              /\ s \notin DOMAIN ParsedItem.def_.nodes
              /\ s \notin roots(ParsedItem.def_)

\* A block with a version line, a force_stop line and a transition was
\* parsed: canceled is in force_stop and is no node, and the definition has
\* a root.
C28_Witness ==
    /\ Parsed
    /\ has_key(graph.items, "version")
    /\ ParsedItem.def_.version = "2"
    /\ "canceled" \in Range(ParsedItem.force_stop)
    /\ "canceled" \notin DOMAIN ParsedItem.def_.nodes
    /\ roots(ParsedItem.def_) # {}

\* The vocabulary of the claims on the diagram.
Drawn == graph.pc = "drawn"

\* The edges the block declares, as (from-state, to-state) pairs.
DeclaredEdges == UNION {{<<from_, to>> : to \in ToStatesOf(from_)} : from_ \in FromStates}

\* The states that are the destination of an edge and never a from-state.
Leaves == ToStates \ FromStates

\* The edge statements the diagram is to hold.
ExpectedStatements ==
    {EdgeStatement(get_diagram_safe_name(e[1]), get_diagram_safe_name(e[2])) : e \in DeclaredEdges}
        \cup {EdgeStatement("begin", get_diagram_safe_name(r)) : r \in roots(ParsedItem.def_)}
        \cup {EdgeStatement(get_diagram_safe_name(l), "end") : l \in Leaves}

\* C29: the edge statements of the diagram of a definition are one per
\* declared edge, one begin -> r per root r and one leaf -> end per state
\* that is a destination and never a from-state, and neither the node labels
\* nor the edge statements hold a line twice.
C29_DiagramStatementsOnce ==
    Drawn =>
        /\ DOMAIN last.ret.edges = ExpectedStatements
        /\ \A e \in DOMAIN last.ret.edges : last.ret.edges[e] = 1
        /\ \A l \in DOMAIN last.ret.labels : last.ret.labels[l] = 1

\* What get_diagram emits: the statements of the declared edges, of the
\* roots and of the leaves and no other; each node label once; the
\* statement leaf -> end once for every declared edge that leads to the leaf,
\* every other statement once.
C29_DiagramStatements ==
    Drawn =>
        /\ DOMAIN last.ret.edges = ExpectedStatements
        /\ DOMAIN last.ret.labels = {get_diagram_label(n) : n \in FromStates \cup ToStates}
        /\ \A l \in DOMAIN last.ret.labels : last.ret.labels[l] = 1
        /\ \A e \in DOMAIN last.ret.edges :
              last.ret.edges[e] =
                  IF e[2] = "end"
                  THEN Cardinality({d \in DeclaredEdges : get_diagram_safe_name(d[2]) = e[1]})
                  ELSE 1

\* The diagram of a definition with a root, a declared edge to a state
\* with capitals in its name, and a leaf was drawn.
C29_Witness ==
    /\ Drawn
    /\ \E r \in roots(ParsedItem.def_) :
          /\ EdgeStatement("begin", get_diagram_safe_name(r)) \in DOMAIN last.ret.edges
          /\ EdgeStatement(get_diagram_safe_name(r), "qa") \in DOMAIN last.ret.edges
    /\ EdgeStatement("qa", "end") \in DOMAIN last.ret.edges
    /\ \E l \in Leaves : l # "QA" /\ last.ret.edges[EdgeStatement(l, "end")] = 1

-----------------------------------------------------------------------------
(* SpecAll: definitions that know some of the names only; transition,      *)
(* mass_transition and transition_to on one object, forced or not          *)

\* The edges and the force_stop list of the blocks: nothing declared at
\* all; new and submitted alone with canceled to stop at, so that ready is
\* a name the definition does not know.
AllBlocks ==
    {[edges |-> {}, force_stop |-> <<>>],
     [edges |-> {<<"new", "submitted">>}, force_stop |-> <<"canceled">>]}

InitAll ==
    \E b \in AllBlocks :
        InitWith(parse_config_dict("Orders", BlockOf(b.edges, b.force_stop)))

\* Lists of two items, both forced or both not, the first to new, the
\* second to the name the second block does not know or to the one it
\* stops at.
ItemListsAll ==
    {<<[Item(Order1, "new") EXCEPT !.force = f], [Item(Order1, t) EXCEPT !.force = f]>> :
        t \in {"ready", "canceled"}, f \in BOOLEAN}

\* What callers enter a transition_to with: every target state, not
\* forced, and the same two names, forced; the definition is found through
\* the type of the object.
EnterArgsAll ==
    {[object_type |-> "order", state_new |-> s, def_name |-> None, def_version |-> None,
      force |-> FALSE] : s \in Names}
    \cup {[object_type |-> "order", state_new |-> s, def_name |-> None, def_version |-> None,
           force |-> TRUE] : s \in {"ready", "canceled"}}

\* What sm.transition is called with while no call is under way: every
\* name, not forced, and forced the two names of the lists.
TransitionArgsAll ==
    [state_new : Names, force : {FALSE}] \cup [state_new : {"ready", "canceled"}, force : {TRUE}]

\* sm.transition outside of a transition_to; beside another call, to the
\* root and not forced.
TransitionStepAll ==
    \E a \in IF Overlapping THEN [state_new : BesideStates, force : {FALSE}]
              ELSE TransitionArgsAll :
        /\ scope.pc = "none"
        /\ TransitionCall(Order1, a.state_new, OrdersTag, NoData, a.force, FALSE, MaxHist)

MassTransitionStepAll ==
    \E items \in ItemListsAll :
        /\ scope.pc = "none"
        /\ ~Overlapping
        /\ MassTransitionCall(items, MaxHist)

ScopeEnterStepAll ==
    \E a \in EnterArgsAll :
        /\ ~Overlapping
        /\ ScopeEnter(a.object_type, "1", a.state_new, a.def_name, a.def_version, NoData,
                      a.force)

ScopeExitDoneStepAll == ScopeExitDone(MaxHist)

CommandStepAll == \E w \in Writers : Command(w, MaxHist)

NextAll ==
    \/ CommandStepAll
    \/ TransitionStepAll
    \/ MassTransitionStepAll
    \/ ScopeEnterStepAll
    \/ ScopeExitRaisedStep
    \/ ScopeExitDoneStepAll

SpecAll == InitAll /\ [][NextAll]_vars

\* The vocabulary of the claim on the stored states.
CurrentKeys(c) == {k \in DOMAIN c : k[1][1] = "zato:bst:state:current"}

\* The names the definition of def_tag knows.
KnownTo(def_tag) == NodesOf(def_tag) \cup ForceStopOf(def_tag)

-----------------------------------------------------------------------------
(* Claim on the stored states, under SpecAll *)

\* C30: after any sequence of transition, mass_transition and
\* transition_to operations, forced or not, the current state stored for an
\* object under a definition is a node of that definition or one of its
\* force_stop states.
C30_StoredStateIsKnown ==
    \A k \in CurrentKeys(conn) :
        /\ k[1][2] \in DOMAIN config
        /\ loads(conn[k]).state_current \in KnownTo(k[1][2])

\* The object was moved to a node and then stopped in a force_stop state
\* that is no node, and a forced transition to a name the definition does
\* not know was refused after that.
C30_Witness ==
    /\ last.op = "transition"
    /\ last.force
    /\ last.state_new \notin KnownTo(last.def_tag)
    /\ last.raised \/ ~last.ret.ok
    /\ StoredState(conn, last.object_tag, last.def_tag) \in ForceStopOf(last.def_tag)
    /\ StoredState(conn, last.object_tag, last.def_tag) \notin NodesOf(last.def_tag)
    /\ Len(StoredHistory(conn, last.object_tag, last.def_tag)) = 2

-----------------------------------------------------------------------------
(* Claims on the histories of calls made one at a time, under SpecOps *)

\* The keys of c under which a history is stored.
HistoryKeys(c) == {k \in DOMAIN c : k[1][1] = "zato:bst:state:history"}

\* The records of the history stored under k.
HistoryAt(c, k) == [i \in 1..Len(loads(c[k])) |-> loads(loads(c[k])[i])]

\* C31: with the calls on an object made one at a time, every record of
\* every history was legal when it was written: it is forced and its
\* state_current is a node, or its state_current is a force_stop state, or it
\* has no state_old and its state_current is a root, or the definition has
\* the edge state_old -> state_current.
C31_EveryRecordWasLegal ==
    \A k \in HistoryKeys(conn) :
        \A i \in 1..Len(HistoryAt(conn, k)) :
            LET rec == HistoryAt(conn, k)[i]
            IN \/ rec.is_forced /\ rec.state_current \in NodesOf(k[1][2])
               \/ rec.state_current \in ForceStopOf(k[1][2])
               \/ rec.state_old = None /\ rec.state_current \in RootsOf(k[1][2])
               \/ rec.state_old # None /\ EdgeOf(k[1][2], rec.state_old, rec.state_current)

\* An object has a history of two records: it entered a root, unforced,
\* and then went along an edge, unforced.
C31_Witness ==
    \E k \in HistoryKeys(conn) :
        /\ Len(HistoryAt(conn, k)) = 2
        /\ ~HistoryAt(conn, k)[1].is_forced /\ ~HistoryAt(conn, k)[2].is_forced
        /\ HistoryAt(conn, k)[1].state_old = None
        /\ HistoryAt(conn, k)[1].state_current \in RootsOf(k[1][2])
        /\ HistoryAt(conn, k)[2].state_current \notin ForceStopOf(k[1][2])
        /\ EdgeOf(k[1][2], HistoryAt(conn, k)[2].state_old, HistoryAt(conn, k)[2].state_current)

\* get_name_state: `previous = history[-2]`, the record the label of the
\* previous state is made from.
get_name_state_previous(history) == history[Len(history) - 1]

\* C32: with the transitions of an object made one at a time, its
\* history is a chain: the first record has no state_old, every later record
\* has as state_old the state_current of the record before it; so whenever
\* the current record has a state_old, the history has two records at least
\* and history[-2] is the record that entered that state.
C32_ChainAndPrevious ==
    \A k \in HistoryKeys(conn) :
        LET history == HistoryAt(conn, k)
            current == loads(conn[<<PATTERN_STATE_CURRENT(k[1][2]), k[2]>>])
        IN OneAtATime(k[2], k[1][2]) =>
           /\ history # <<>>
           /\ history[1].state_old = None
           /\ \A i \in 2..Len(history) : history[i].state_old = history[i - 1].state_current
           /\ current.state_old # None =>
                 /\ Len(history) >= 2
                 /\ get_name_state_previous(history).state_current = current.state_old

\* C32, as the code has it: with the transitions of an object made one at
\* a time its history is a chain at every moment; when the current record
\* has a state_old, history[-2] is the record that entered that state
\* unless a caller is between the two writes of set_current_state_info,
\* and then it is history[-1].
C32_HistoryIsAChain ==
    \A k \in HistoryKeys(conn) :
        LET history == HistoryAt(conn, k)
            current == loads(conn[<<PATTERN_STATE_CURRENT(k[1][2]), k[2]>>])
        IN OneAtATime(k[2], k[1][2]) =>
           /\ history # <<>>
           /\ history[1].state_old = None
           /\ \A i \in 2..Len(history) : history[i].state_old = history[i - 1].state_current
           /\ (current.state_old # None /\ ~BetweenWrites(k[2], k[1][2])) =>
                 /\ Len(history) >= 2
                 /\ get_name_state_previous(history).state_current = current.state_old
           /\ BetweenWrites(k[2], k[1][2]) =>
                 history[Len(history)].state_current = current.state_old

\* An object went from one state to another: its current record names
\* the state it came from and history[-2] is the record that entered it.
C32_Witness ==
    \E k \in HistoryKeys(conn) :
        LET history == HistoryAt(conn, k)
            current == loads(conn[<<PATTERN_STATE_CURRENT(k[1][2]), k[2]>>])
        IN /\ OneAtATime(k[2], k[1][2]) /\ ~BetweenWrites(k[2], k[1][2])
           /\ Len(history) = 2
           /\ current.state_old # None
           /\ current.state_old # current.state_current
           /\ get_name_state_previous(history).state_current = current.state_old
           /\ get_name_state_previous(history).state_old = None

-----------------------------------------------------------------------------
(* Claims on can_transition, under Spec *)

\* C33: for an object whose current state is a force_stop state that is
\* no node, can_transition without force to a state outside force_stop is
\* refused, the edge lookup failing on the unknown from-node; it is allowed
\* only with force to a node, or to a force_stop state.
C33_StoppedOutsideTheGraph ==
    (/\ last.op = "can_transition"
     /\ StoredState(conn, last.object_tag, last.def_tag) \in
            ForceStopOf(last.def_tag) \ NodesOf(last.def_tag))
        => /\ (~last.force /\ last.state_new \notin ForceStopOf(last.def_tag))
                 => /\ ~last.ret.ok
                    /\ last.ret.reason =
                           NoEdgeReason(StoredState(conn, last.object_tag, last.def_tag),
                                        last.state_new, last.object_tag, last.def_tag)
           /\ last.ret.ok
                 => \/ last.force /\ last.state_new \in NodesOf(last.def_tag)
                    \/ last.state_new \in ForceStopOf(last.def_tag)

\* An object stopped in canceled, which is no node, was refused an
\* unforced transition to a root of the definition.
C33_Witness ==
    /\ last.op = "can_transition"
    /\ StoredState(conn, last.object_tag, last.def_tag) = "canceled"
    /\ "canceled" \in ForceStopOf(last.def_tag) \ NodesOf(last.def_tag)
    /\ ~last.force
    /\ last.state_new \in RootsOf(last.def_tag)
    /\ last.state_new \notin ForceStopOf(last.def_tag)
    /\ ~last.ret.ok

\* C34: can_transition is a query: whatever its arguments and its
\* outcome it leaves every current-state record and history and the nodes,
\* edges and roots of the definitions as they were, and asked again with no
\* transition in between it returns the same.
C34_CanTransitionIsAQuery ==
    [][last'.op = "can_transition" =>
          /\ conn' = conn
          /\ DOMAIN config' = DOMAIN config
          /\ \A t \in DOMAIN config :
                /\ config'[t].def_.nodes = config[t].def_.nodes
                /\ roots(config'[t].def_) = roots(config[t].def_)
                /\ config'[t].force_stop = config[t].force_stop
          /\ can_transition(config', conn', last'.object_tag, last'.state_new, last'.def_tag,
                            last'.force) = last'.ret]_vars

\* can_transition refused an object that has a stored state, after roots
\* had been read, and the store holds the record and the history of one
\* record it held before.
C34_Witness ==
    /\ last.op = "can_transition"
    /\ ~last.ret.ok
    /\ config[last.def_tag].def_.roots_cached
    /\ StoredState(conn, last.object_tag, last.def_tag) # None
    /\ Len(StoredHistory(conn, last.object_tag, last.def_tag)) = 1
    /\ conn = pre

-----------------------------------------------------------------------------
(* SpecCommit: the block [Orders], transition_to on one object with        *)
(* transitions of that object between entry and exit                       *)

ScopeEnterStepCommit ==
    \E state_new \in Names :
        ScopeEnter("order", "1", state_new, None, None, NoData, FALSE)

\* The same caller beside the transition_to, with MaxHist transitions in all.
TransitionBesideStepCommit ==
    /\ Overlapping => scope.pc = "exit"
    /\ \E state_new \in IF Overlapping THEN BesideStates ELSE Names :
           TransitionBeside(Order1, state_new, OrdersTag, NoData, FALSE, TRUE, MaxHist)

ScopeExitDoneStepCommit == ScopeExitDone(MaxHist)

CommandStepCommit == \E w \in Writers : Command(w, MaxHist)

NextCommit ==
    \/ CommandStepCommit
    \/ ScopeEnterStepCommit
    \/ TransitionBesideStepCommit
    \/ ScopeExitDoneStepCommit

SpecCommit == InitOps /\ [][NextCommit]_vars

-----------------------------------------------------------------------------
(* Claim on the exit of transition_to, under SpecCommit *)

\* C35: a transition_to commits no transition that is invalid when it
\* commits: when the state of the object was changed between entry and exit
\* so that the definition no longer allows state_new, the exit raises
\* TransitionError and writes nothing; whatever an exit writes, the
\* definition allowed from the state stored when the exit began, and with
\* no other call under way during the exit that is the state its record
\* replaces.
C35_ExitValidatesAgain ==
    (last.op = "exit" /\ ~last.exc)
        => LET s == StoredState(pre, last.self.object_tag, last.self.def_tag)
               allowed == Allowed(last.self.def_tag, s, last.self.state_new, last.self.force)
           IN /\ ~allowed => last.raised /\ conn = pre
              /\ conn # pre => allowed
              /\ (last.alone /\ conn # pre) => conn = Committed(pre, exit_transition(last.self))

\* A scope was entered, the object was moved by another call before the
\* exit, the definition did not allow state_new from the state it was moved
\* to, and the exit raised and wrote nothing.
C35_Witness ==
    /\ last.op = "exit" /\ ~last.exc
    /\ last.disturbed
    /\ ~last.self.force
    /\ last.raised
    /\ conn = pre
    /\ StoredState(conn, last.self.object_tag, last.self.def_tag) # None
    /\ ~EdgeOf(last.self.def_tag, StoredState(conn, last.self.object_tag, last.self.def_tag),
               last.self.state_new)


-----------------------------------------------------------------------------
(* SpecOverlap: two callers of transition on one object of [Orders], their *)
(* commands to Redis interleaved, one call more than in SpecRace so that   *)
(* the object has a state when two calls overlap                           *)

MaxOverlapCalls == MaxRaceCalls + 1

\* The states the callers ask for: the root of [Orders] and its successor.
OverlapStates == {"new", "submitted"}

TransitionBeginStepOverlap ==
    \E w \in Writers, state_new \in OverlapStates :
        TransitionBegin(w, Order1, state_new, OrdersTag, Dict({CallIds[threads.started + 1]}),
                        FALSE, MaxOverlapCalls)

BackendCommandStepOverlap == \E w \in Writers : BackendCommand(w)

NextOverlap == TransitionBeginStepOverlap \/ BackendCommandStepOverlap

SpecOverlap == InitRace /\ [][NextOverlap]_vars

\* C36: transition validates against the state it reads and writes later,
\* so two unforced calls on one object that overlap can both be validated
\* against the same state s and both commit: the history then has two
\* consecutive records with state_old = s, and the later one has no edge
\* from the state of the record before it. Every record of a history was
\* allowed from the state_old it carries, and a record whose state_old is
\* not the state of the record before it is found only on a pair whose
\* transitions overlapped.
C36_ValidatedThenWritten ==
    LET h == StoredHistory(conn, Order1, OrdersTag)
    IN /\ \A i \in 1..Len(h) :
              Allowed(OrdersTag, h[i].state_old, h[i].state_current, h[i].is_forced)
       /\ (\E i \in 2..Len(h) : h[i].state_old # h[i - 1].state_current)
              => Key(Order1, OrdersTag) \in threads.raced

\* Both callers have returned from an unforced transition of the object
\* from state s = "new" to "submitted"; the history ends with their two
\* records, both with state_old = "new", and [Orders] has no edge from
\* "submitted", the state stored before the later record, to "submitted".
C36_Witness ==
    LET h == StoredHistory(conn, Order1, OrdersTag)
        calls == DoneOf(done, Order1, OrdersTag)
    IN /\ \A w \in Writers : threads.w[w].pc = "idle"
       /\ Len(calls) = 3
       /\ Len(h) = 3
       /\ h[2].state_old = "new" /\ h[3].state_old = "new"
       /\ ~h[2].is_forced /\ ~h[3].is_forced
       /\ h[2] # h[3]
       /\ {h[2], h[3]} = {RecordOf(Order1, OrdersTag, calls[2]), RecordOf(Order1, OrdersTag, calls[3])}
       /\ h[2].state_current = "submitted"
       /\ ~EdgeOf(OrdersTag, h[2].state_current, h[3].state_current)
       /\ ~Allowed(OrdersTag, h[2].state_current, h[3].state_current, FALSE)
       /\ StoredRecord(conn, Order1, OrdersTag) \in {h[2], h[3]}


-----------------------------------------------------------------------------
(* SpecRetry: zato.invoke_retry                                            *)
(* (src/invoke-retry/code/src/zato/invoke_retry/__init__.py): one call of  *)
(* InvokeRetry.invoke_retry or invoke_async_retry, the invocations of the  *)
(* target it makes one by one, and the background service _InvokeRetry,   *)
(* each followed from one place where it waits (an invocation of the       *)
(* target, a sleep, a greenlet not yet run) to the next.                   *)

\* The largest retry_repeats a caller passes.
MaxRepeats == 2

\* The invocations of the target one blocking call is followed for.
MaxInvokes == 4

\* What the target service returns when it does not raise: a payload, or
\* the empty payload of a service that sets none.
Responses == {"response", ""}

\* One invocation of the target: it raises, or it returns a response.
Outcomes == {[ok |-> FALSE, response |-> None]} \cup {[ok |-> TRUE, response |-> r] : r \in Responses}

\* The truth value Python gives a string or None / an integer.
StrTrue(x) == x # None /\ x # ""

IntTrue(n) == n # 0

\* The keyword arguments callers pass next to the target: retry_seconds=1
\* is always given and retry_minutes never is.
RetryKwargs ==
    [async_fallback : BOOLEAN, callback : {None, "my.callback"}, callback_context : {"ctx"},
     retry_repeats : 1..MaxRepeats, retry_seconds : {1}]

\* InvokeRetry._get_retry_settings: with async_fallback, callback and
\* retry_repeats must be given (and one of retry_seconds, retry_minutes,
\* which holds of every call here; the callback named is a deployed service).
get_retry_settings(kwargs) ==
    IF kwargs.async_fallback /\ ~StrTrue(kwargs.callback)
    THEN [raised |-> TRUE, error |-> "ValueError"]
    ELSE IF kwargs.async_fallback /\ ~IntTrue(kwargs.retry_repeats)
    THEN [raised |-> TRUE, error |-> "ValueError"]
    ELSE [raised |-> FALSE, async_fallback |-> kwargs.async_fallback, callback |-> kwargs.callback,
          callback_context |-> kwargs.callback_context, retry_repeats |-> kwargs.retry_repeats,
          retry_seconds |-> kwargs.retry_seconds]

\* InvokeRetry._invoke_async_retry: the request sent to _InvokeRetry, as
\* _InvokeRetry.handle reads it, the first _retry spawned.
invoke_async_retry_request(target, settings, orig_cid) ==
    dumps([target |-> target, retry_repeats |-> settings.retry_repeats,
           retry_seconds |-> settings.retry_seconds, orig_cid |-> orig_cid,
           callback |-> settings.callback, callback_context |-> settings.callback_context])

\* No background service runs.
NoBackground == [pc |-> "none"]

\* InvokeRetry._invoke_async_retry, line 175: invoke_async has published
\* the request for _InvokeRetry; the service has not run yet.
invoke_async(payload) == [pc |-> "sent", payload |-> payload]

\* _InvokeRetry.handle: the request is read and the first _retry is
\* spawned with remaining = retry_repeats and linked to _on_retry_finished.
\* attempts are the invocations of the target that have ended, notified
\* the requests sent to the callback service, g the greenlet that ended.
handle(payload) ==
    [pc |-> "spawned", req_bunch |-> loads(payload), remaining |-> loads(payload).retry_repeats,
     g |-> NoData, attempts |-> <<>>, notified |-> <<>>]

\* _InvokeRetry._retry: the exception the greenlet ends with, None when the
\* target returned.
retry_attempt(remaining, outcome) ==
    IF ~outcome.ok THEN [raised |-> TRUE, remaining |-> remaining - 1]
    ELSE [raised |-> FALSE, response |-> outcome.response]

\* _InvokeRetry._notify_callback: what is sent, and to which service.
notify_callback(req_bunch, is_ok) ==
    [service |-> req_bunch.callback,
     payload |-> dumps([ok |-> is_ok, orig_cid |-> req_bunch.orig_cid, target |-> req_bunch.target,
                        retry_seconds |-> req_bunch.retry_seconds,
                        retry_repeats |-> req_bunch.retry_repeats,
                        context |-> req_bunch.callback_context])]

\* An _on_retry_finished that tells the callback of every failed attempt.
on_retry_finished_notify_each(b, g) ==
    IF g.raised
    THEN [b EXCEPT !.pc = IF IntTrue(g.remaining) THEN "spawned" ELSE "finished",
                   !.remaining = g.remaining,
                   !.notified = Append(@, notify_callback(b.req_bunch, FALSE))]
    ELSE [b EXCEPT !.pc = "finished",
                   !.notified = Append(@, notify_callback(b.req_bunch, TRUE))]

\* _InvokeRetry._on_retry_finished, called with the greenlet of _retry that
\* ended: the next _retry is spawned (spawn_later) with e.remaining, or the
\* callback service is notified.
on_retry_finished(b, g) ==
    IF g.raised
    THEN IF IntTrue(g.remaining)
         THEN [b EXCEPT !.pc = "spawned", !.remaining = g.remaining]
         ELSE [b EXCEPT !.pc = "finished",
                        !.notified = Append(@, notify_callback(b.req_bunch, FALSE))]
    ELSE [b EXCEPT !.pc = "finished",
                   !.notified = Append(@, notify_callback(b.req_bunch, TRUE))]

\* InvokeRetry.invoke_retry is called: _get_retry_settings has raised, or
\* the target is being invoked for the first time (line 188). invoked are
\* the invocations of the target that have ended.
invoke_retry_call(target, kwargs) ==
    LET settings == get_retry_settings(kwargs)
        call == [pc |-> "invoke", target |-> target, kwargs |-> kwargs, invoked |-> <<>>,
                 remaining |-> 0, result |-> None, ret |-> None, error |-> None,
                 bg |-> NoBackground]
    IN IF settings.raised
       THEN [call EXCEPT !.pc = "raised", !.error = settings.error]
       ELSE call

\* InvokeRetry.invoke_retry from where the call is (call.pc) to the next
\* place where it waits or ends:
\*   "invoke"   the first self.invoke (188) ends with outcome;
\*   "fallback" the request for _InvokeRetry is sent, NeedsRetry is raised (199-200);
\*   "loop"     `while remaining > 0` is tested (208), and what follows the loop (218-221);
\*   "retry"    the self.invoke of the loop (210) ends with outcome;
\*   "sleep"    sleep(retry_seconds) ends and remaining is decremented (214-215).
\* The blocking branch has no return statement: it returns None.
invoke_retry_step(call, outcome, cid) ==
    LET settings == get_retry_settings(call.kwargs)
    IN CASE call.pc = "invoke" ->
               IF outcome.ok
               THEN [call EXCEPT !.pc = "returned", !.invoked = Append(@, outcome),
                                 !.result = outcome.response, !.ret = outcome.response]
               ELSE IF settings.async_fallback
               THEN [call EXCEPT !.pc = "fallback", !.invoked = Append(@, outcome)]
               ELSE [call EXCEPT !.pc = "loop", !.invoked = Append(@, outcome),
                                 !.remaining = settings.retry_repeats, !.result = None]
         [] call.pc = "fallback" ->
               [call EXCEPT !.pc = "raised", !.error = "NeedsRetry",
                            !.bg = invoke_async(invoke_async_retry_request(call.target, settings,
                                                                           cid))]
         [] call.pc = "loop" ->
               IF call.remaining > 0 THEN [call EXCEPT !.pc = "retry"]
               ELSE IF ~StrTrue(call.result)
               THEN [call EXCEPT !.pc = "raised", !.error = "ZatoException"]
               ELSE [call EXCEPT !.pc = "returned", !.ret = None]
         [] call.pc = "retry" ->
               IF outcome.ok
               THEN [call EXCEPT !.pc = "loop", !.invoked = Append(@, outcome),
                                 !.result = outcome.response]
               ELSE [call EXCEPT !.pc = "sleep", !.invoked = Append(@, outcome)]
         [] call.pc = "sleep" ->
               [call EXCEPT !.pc = "loop", !.remaining = @ - 1]
         [] OTHER -> call

\* InvokeRetry.invoke_async_retry: the request for _InvokeRetry is sent at
\* once and the cid of invoke_async is returned.
invoke_async_retry(target, kwargs, cid) ==
    LET settings == get_retry_settings(kwargs)
        call == [pc |-> "returned", target |-> target, kwargs |-> kwargs, invoked |-> <<>>,
                 remaining |-> 0, result |-> None, ret |-> None, error |-> None,
                 bg |-> NoBackground]
    IN IF settings.raised
       THEN [call EXCEPT !.pc = "raised", !.error = settings.error]
       ELSE [call EXCEPT !.ret = "cid",
                         !.bg = invoke_async(invoke_async_retry_request(target, settings, cid))]

\* A service calls self.invoke_retry(target, **kwargs): the settings are
\* read and the first invocation of the target begins.
InvokeRetryCall(kwargs) ==
    /\ retry.pc = "none"
    /\ retry' = invoke_retry_call("my.target", kwargs)
    /\ UNCHANGED <<config, object_type_to_def, conn, scope, last, pre, done, threads, graph>>

\* The first invocation of the target returns or raises.
InvokeEnds(outcome) ==
    /\ retry.pc = "invoke"
    /\ retry' = invoke_retry_step(retry, outcome, "orig-cid")
    /\ UNCHANGED <<config, object_type_to_def, conn, scope, last, pre, done, threads, graph>>

\* With async_fallback: the request for the background service is sent
\* and NeedsRetry is raised.
InvokeAsyncFallback ==
    /\ retry.pc = "fallback"
    /\ retry' = invoke_retry_step(retry, NoData, "orig-cid")
    /\ UNCHANGED <<config, object_type_to_def, conn, scope, last, pre, done, threads, graph>>

\* `while remaining > 0`: the target is invoked once more, or the loop is
\* left and the call ends. The call is followed for MaxInvokes invocations.
BlockingLoopTest ==
    /\ retry.pc = "loop"
    /\ retry.remaining > 0 => Len(retry.invoked) < MaxInvokes
    /\ retry' = invoke_retry_step(retry, NoData, "orig-cid")
    /\ UNCHANGED <<config, object_type_to_def, conn, scope, last, pre, done, threads, graph>>

\* The invocation made by the loop returns or raises.
BlockingRetryEnds(outcome) ==
    /\ retry.pc = "retry"
    /\ retry' = invoke_retry_step(retry, outcome, "orig-cid")
    /\ UNCHANGED <<config, object_type_to_def, conn, scope, last, pre, done, threads, graph>>

\* sleep(retry_seconds) is over: remaining is decremented.
BlockingSleepEnds ==
    /\ retry.pc = "sleep"
    /\ retry' = invoke_retry_step(retry, NoData, "orig-cid")
    /\ UNCHANGED <<config, object_type_to_def, conn, scope, last, pre, done, threads, graph>>

\* A service calls self.invoke_async_retry(target, **kwargs).
InvokeAsyncRetryCall(kwargs) ==
    /\ retry.pc = "none"
    /\ retry' = invoke_async_retry("my.target", kwargs, "orig-cid")
    /\ UNCHANGED <<config, object_type_to_def, conn, scope, last, pre, done, threads, graph>>

\* The request sent by invoke_async reaches _InvokeRetry: handle runs.
BackgroundHandle ==
    /\ retry.pc # "none"
    /\ retry.bg.pc = "sent"
    /\ retry' = [retry EXCEPT !.bg = handle(retry.bg.payload)]
    /\ UNCHANGED <<config, object_type_to_def, conn, scope, last, pre, done, threads, graph>>

\* The greenlet spawned for _retry, by spawn or by spawn_later, starts to
\* run: it invokes the target (line 57).
BackgroundRetryStarts ==
    /\ retry.pc # "none"
    /\ retry.bg.pc = "spawned"
    /\ retry' = [retry EXCEPT !.bg.pc = "invoking"]
    /\ UNCHANGED <<config, object_type_to_def, conn, scope, last, pre, done, threads, graph>>

\* The invocation made by _retry returns or raises and the greenlet ends,
\* with the response or with RetryFailed(remaining - 1).
BackgroundRetryEnds(outcome) ==
    /\ retry.pc # "none"
    /\ retry.bg.pc = "invoking"
    /\ retry' = [retry EXCEPT !.bg.pc = "ended",
                              !.bg.attempts = Append(@, outcome),
                              !.bg.g = retry_attempt(retry.bg.remaining, outcome)]
    /\ UNCHANGED <<config, object_type_to_def, conn, scope, last, pre, done, threads, graph>>

\* _on_retry_finished, linked to the greenlet that ended, is called with it.
BackgroundOnRetryFinished ==
    /\ retry.pc # "none"
    /\ retry.bg.pc = "ended"
    /\ retry' = [retry EXCEPT !.bg = on_retry_finished(retry.bg, retry.bg.g)]
    /\ UNCHANGED <<config, object_type_to_def, conn, scope, last, pre, done, threads, graph>>

InitRetry == InitOps

NextRetry ==
    \/ \E kwargs \in RetryKwargs : InvokeRetryCall(kwargs)
    \/ \E outcome \in Outcomes : InvokeEnds(outcome)
    \/ InvokeAsyncFallback
    \/ BlockingLoopTest
    \/ \E outcome \in Outcomes : BlockingRetryEnds(outcome)
    \/ BlockingSleepEnds
    \/ \E kwargs \in {k \in RetryKwargs : ~k.async_fallback /\ k.callback # None} :
          InvokeAsyncRetryCall(kwargs)
    \/ BackgroundHandle
    \/ BackgroundRetryStarts
    \/ \E outcome \in Outcomes : BackgroundRetryEnds(outcome)
    \/ BackgroundOnRetryFinished

SpecRetry == InitRetry /\ [][NextRetry]_vars

\* gevent runs every greenlet it was asked to spawn, at once or after
\* retry_seconds, and calls what is linked to a greenlet that ended. That
\* the request reaches _InvokeRetry and that an invocation of the target
\* ends is up to the broker and to the target: no fairness is asked of them.
SpecRetryFair ==
    /\ InitRetry /\ [][NextRetry]_vars
    /\ WF_vars(BackgroundRetryStarts)
    /\ WF_vars(BackgroundOnRetryFinished)


-----------------------------------------------------------------------------
(* Claims on invoke_retry in blocking mode, under SpecRetry *)

\* invoke_retry was called without async_fallback and the first invocation
\* of the target failed.
BlockingAfterFailure ==
    /\ retry.pc # "none"
    /\ ~retry.kwargs.async_fallback
    /\ retry.invoked # <<>>
    /\ ~retry.invoked[1].ok

\* The call has ended, by returning or by raising.
Ended == retry.pc \in {"returned", "raised"}

\* The invocations begun after the first one / the retries that failed.
Retried == Len(retry.invoked) - 1 + (IF retry.pc = "retry" THEN 1 ELSE 0)

FailedRetries == Cardinality({i \in 2..Len(retry.invoked) : ~retry.invoked[i].ok})

\* C37, as stated: once the first invocation has failed, a blocking
\* invoke_retry invokes the target at most retry_repeats more times; when
\* the last of them is over (and slept after), the call has ended or is
\* at the test that ends the loop.
C37_AtMostRepeatsRetries ==
    BlockingAfterFailure
        => /\ Retried <= retry.kwargs.retry_repeats
           /\ (Retried = retry.kwargs.retry_repeats /\ retry.pc \notin {"retry", "sleep"})
                 => (Ended \/ retry.remaining = 0)

\* C37, as the loop counts: only a failed retry is counted, when the sleep
\* that follows it is over. The call has made at most retry_repeats failed
\* retries; remaining is what is left of them, the one being slept after
\* not yet taken off; the target is invoked again only while fewer than
\* retry_repeats retries have failed; and the call ends only when
\* retry_repeats retries have failed, at the test of the loop that follows.
C37_AtMostRepeatsFailedRetries ==
    BlockingAfterFailure
        => /\ FailedRetries <= retry.kwargs.retry_repeats
           /\ retry.remaining
                 = retry.kwargs.retry_repeats - FailedRetries + (IF retry.pc = "sleep" THEN 1 ELSE 0)
           /\ retry.pc = "retry" => FailedRetries < retry.kwargs.retry_repeats
           /\ Ended => FailedRetries = retry.kwargs.retry_repeats
           /\ FailedRetries = retry.kwargs.retry_repeats => (Ended \/ retry.pc \in {"sleep", "loop"})

\* A blocking call that ended after more than retry_repeats retries: some
\* of them succeeded and the loop went on.
C37_Witness ==
    /\ BlockingAfterFailure
    /\ Ended
    /\ Retried > retry.kwargs.retry_repeats
    /\ \E i \in 2..Len(retry.invoked) : retry.invoked[i].ok

\* The responses of the invocations that succeeded.
Returned == {retry.invoked[i].response : i \in {j \in 1..Len(retry.invoked) : retry.invoked[j].ok}}

\* The response of the last retry that succeeded, None when none did.
LastReturned ==
    LET ok == {i \in 2..Len(retry.invoked) : retry.invoked[i].ok}
    IN IF ok = {} THEN None ELSE retry.invoked[CHOOSE i \in ok : \A j \in ok : j <= i].response

\* C38, as stated: invoke_retry returns the response of the target
\* whenever some invocation succeeded, and raises the retry-limit
\* ZatoException only when the first invocation and all retry_repeats
\* retries failed.
C38_ReturnsTheResponse ==
    (retry.pc # "none" /\ retry.invoked # <<>> /\ ~retry.kwargs.async_fallback)
        => /\ (Ended /\ Returned # {}) => retry.pc = "returned" /\ retry.ret \in Returned
           /\ (retry.pc = "raised" /\ retry.error = "ZatoException")
                 => Returned = {} /\ Retried = retry.kwargs.retry_repeats

\* C38, as the code returns: a first invocation that succeeds is answered
\* with its response. After a failed first invocation the call returns
\* None, and it does so when the last retry that succeeded returned a
\* response that counts as true; it raises the retry-limit ZatoException
\* when no retry succeeded or the last that did returned an empty response.
C38_ReturnsTheFirstResponseOnly ==
    (retry.pc # "none" /\ retry.invoked # <<>> /\ ~retry.kwargs.async_fallback)
        => /\ retry.invoked[1].ok
                 => retry.pc = "returned" /\ retry.ret = retry.invoked[1].response /\ Retried = 0
           /\ (BlockingAfterFailure /\ retry.pc = "returned")
                 => retry.ret = None /\ StrTrue(LastReturned)
           /\ (BlockingAfterFailure /\ retry.pc = "raised")
                 => retry.error = "ZatoException" /\ ~StrTrue(LastReturned)
           /\ BlockingAfterFailure => retry.result = LastReturned

\* A blocking call one of whose retries returned "response" has ended by
\* returning None.
C38_Witness ==
    /\ BlockingAfterFailure
    /\ retry.pc = "returned"
    /\ retry.ret = None
    /\ "response" \in Returned


-----------------------------------------------------------------------------
(* Claims on the background service _InvokeRetry, under SpecRetryFair *)

\* _InvokeRetry was invoked, by invoke_retry with async_fallback after a
\* failed first invocation or by invoke_async_retry, and handle has run.
InBackground == retry.pc # "none" /\ retry.bg.pc \notin {"none", "sent"}

\* _retry is in its invocation of the target.
Invoking == retry.pc # "none" /\ retry.bg.pc = "invoking"

\* What the callback service was sent, read back.
Notified(i) == loads(retry.bg.notified[i].payload)

\* _InvokeRetry has begun at most retry_repeats invocations of the target,
\* all but the last of those that ended failed and none was begun after
\* one that succeeded; the callback was notified at most once, exactly
\* when the service has finished, which it has only after an attempt that
\* succeeded (ok=true) or after retry_repeats failures (ok=false); and
\* after such an attempt nothing is left but the call of
\* _on_retry_finished that notifies.
BackgroundNotifiesOnce ==
    InBackground
        => LET b == retry.bg
               n == Len(b.attempts)
               last_one == n >= 1 /\ (b.attempts[n].ok \/ n = b.req_bunch.retry_repeats)
           IN /\ n + (IF b.pc = "invoking" THEN 1 ELSE 0) <= b.req_bunch.retry_repeats
              /\ b.req_bunch.retry_repeats = retry.kwargs.retry_repeats
              /\ \A i \in 1..(n - 1) : ~b.attempts[i].ok
              /\ Len(b.notified) <= 1
              /\ b.pc = "finished" <=> Len(b.notified) = 1
              /\ b.pc = "finished" => last_one
              /\ last_one => b.pc \in {"ended", "finished"}
              /\ Len(b.notified) = 1
                    => /\ b.notified[1].service = retry.kwargs.callback
                       /\ Notified(1).ok = b.attempts[n].ok
                       /\ Notified(1).orig_cid = "orig-cid"

\* C39: for retry_repeats >= 1 the background service invokes the target
\* at most retry_repeats times, never again after a success, and notifies
\* the callback service exactly once, ok=true after a success and ok=false
\* after the retry_repeats-th consecutive failure: never twice and never
\* otherwise, and, provided that every invocation of the target ends, a
\* service whose handle has run gets to its notification.
C39_BackgroundNotifiesExactlyOnce ==
    /\ []BackgroundNotifiesOnce
    /\ ([]<>~Invoking)
          => (InBackground ~> (InBackground /\ retry.bg.pc = "finished" /\ Len(retry.bg.notified) = 1))

\* The background service has finished after MaxRepeats attempts that all
\* failed and has told the callback ok=false, once.
C39_Witness ==
    /\ InBackground
    /\ retry.bg.pc = "finished"
    /\ retry.kwargs.retry_repeats = MaxRepeats
    /\ Len(retry.bg.attempts) = MaxRepeats
    /\ \A i \in 1..MaxRepeats : ~retry.bg.attempts[i].ok
    /\ Len(retry.bg.notified) = 1
    /\ ~Notified(1).ok

====
